---- MODULE Spec2Model ----
(***************************************************************************)
(* viz-my-money: CSV ingestion (UploadSection.tsx), manual edits           *)
(* (TransactionsTable.tsx), the charts (ChartSection), the Dashboard and   *)
(* its books, and the store they read and write.                           *)
(*                                                                         *)
(* Strings are TLA+ strings; a character is a string of length 1.          *)
(* A JavaScript number is a record [k, m, x]: k = "fin" is the decimal     *)
(* m * 10^x (m has no trailing zero; zero is m = 0, x = 0), k = "inf" is   *)
(* +Infinity (m = 1) or -Infinity (m = -1), k = "nan" is NaN.  Decimal     *)
(* literals of at most nine significant digits are identified with the     *)
(* double nearest to them.                                                 *)
(***************************************************************************)
EXTENDS Integers, Sequences, FiniteSets, TLC

VARIABLES
    \* ---- application state (specification Spec) ----
    dbTransactions,      \* rows of public.transactions, in insertion order
    nextId,              \* next row id the store hands out
    uploadPc,            \* where handleFileSelect stands: idle, reading, inserting
    file,                \* the File picked in the input: [name, text]
    transactionsToInsert,\* the payload of the bulk insert in flight
    isUploading,         \* UploadSection state
    uploadCompleteCalls, \* calls of the onUploadComplete prop
    editingTransaction,  \* TransactionsTable state: Some(row under edit), or Null
    formData,            \* TransactionsTable state: the edit form
    savePc,              \* where handleSave stands: idle, updating
    updateRequest,       \* the update in flight
    transactions,        \* Dashboard state: the rows listed for the selected book
    loads,               \* loadTransactions requests in flight: their book ids
    toast,               \* the toast shown last (sonner's toaster is global)
    updateCalls,         \* calls of the onUpdate prop
    requests,            \* uploads and updates the user has started
    \* ---- one application of a pure function (specification PureSpec) ----
    fnKind,              \* which function is applied
    fnIn,                \* its input
    fnOut,               \* its result
    fnPc,                \* ready, done
    \* ---- ChartSection state (specification ChartSpec) ----
    timePeriod,          \* weekly, monthly, yearly
    currentDate,         \* the reference date of the window: [year, month, day]
    navSteps,            \* clicks on the period buttons and the arrows, and new
                         \* lists, so far
    \* ---- books: the store and the Dashboard (StoreSpec, DashboardSpec) ----
    dbBooks,             \* rows of public.books, in insertion order
    nextBookId,          \* number of the next book id the store hands out
    books,               \* Dashboard state: the books listed
    selectedBook,        \* Dashboard state: Some(book), or Null
    booksPc,             \* where loadBooks stands: loading (the first time,
                         \* isLoading), reloading, idle
    createRequests,      \* the book inserts in flight
    deleteRequest,       \* the transaction delete in flight, or Null
    \* ---- one request to the store through its API (StoreSpec) ----
    authUid,             \* auth.uid() of the last request
    sqlResponse          \* the rows the last request returned

appVars == <<dbTransactions, nextId, uploadPc, file, transactionsToInsert,
             isUploading, uploadCompleteCalls,
             editingTransaction, formData, savePc, updateRequest,
             transactions, loads, updateCalls, toast, requests>>
fnVars == <<fnKind, fnIn, fnOut, fnPc>>
chartVars == <<timePeriod, currentDate, navSteps>>
bookVars == <<dbBooks, nextBookId, books, selectedBook, booksPc, createRequests, deleteRequest>>
sqlVars == <<authUid, sqlResponse>>
vars == <<appVars, fnVars, chartVars, bookVars, sqlVars>>

\* null, and a value that may be null: <<>> or <<v>>.
Null == <<>>
Some(v) == <<v>>

-----------------------------------------------------------------------------
(* Bounds of the model.                                                    *)

MaxLineLen == 5
MaxNumLen == 4
MaxPad == 1
MaxDataLines == 2
NumCols == 3
MaxRequests == 2
MaxBooks == 2
MaxStoreRows == 2
MaxStoreOps == 5
MaxChartRows == 3
MaxNavSteps == 2

-----------------------------------------------------------------------------
(* JavaScript string primitives.                                           *)

Char(s, i) == SubSeq(s, i, i)

\* The characters String.prototype.trim removes, among those the model uses.
IsWhiteSpace(c) == c \in {" ", "\t", "\n", "\r"}

IsDigit(c) == c \in {"0", "1", "2", "3", "4", "5", "6", "7", "8", "9"}

DigitVal(c) ==
    CASE c = "0" -> 0 [] c = "1" -> 1 [] c = "2" -> 2 [] c = "3" -> 3
      [] c = "4" -> 4 [] c = "5" -> 5 [] c = "6" -> 6 [] c = "7" -> 7
      [] c = "8" -> 8 [] c = "9" -> 9

RECURSIVE TrimStart(_)
TrimStart(s) ==
    IF Len(s) > 0 /\ IsWhiteSpace(Char(s, 1)) THEN TrimStart(Tail(s)) ELSE s

RECURSIVE TrimEnd(_)
TrimEnd(s) ==
    IF Len(s) > 0 /\ IsWhiteSpace(Char(s, Len(s)))
    THEN TrimEnd(SubSeq(s, 1, Len(s) - 1))
    ELSE s

Trim(s) == TrimEnd(TrimStart(s))

\* s.includes(sub)
Includes(s, sub) ==
    \E i \in 1..(Len(s) - Len(sub) + 1) : SubSeq(s, i, i + Len(sub) - 1) = sub

StartsWith(s, sub) == Len(s) >= Len(sub) /\ SubSeq(s, 1, Len(sub)) = sub

EndsWith(s, sub) ==
    Len(s) >= Len(sub) /\ SubSeq(s, Len(s) - Len(sub) + 1, Len(s)) = sub

UpperLetters == "ABCDEFGHIJKLMNOPQRSTUVWXYZ"
LowerLetters == "abcdefghijklmnopqrstuvwxyz"

LowerChar(c) ==
    IF \E i \in 1..26 : Char(UpperLetters, i) = c
    THEN Char(LowerLetters, CHOOSE i \in 1..26 : Char(UpperLetters, i) = c)
    ELSE c

RECURSIVE ToLowerCase(_)
ToLowerCase(s) ==
    IF s = "" THEN "" ELSE LowerChar(Char(s, 1)) \o ToLowerCase(Tail(s))

\* s.split(sep) for a one-character separator: the pieces between the
\* separators, in order; always at least one piece.
Split(s, sep) ==
    LET at == {i \in 1..Len(s) : Char(s, i) = sep}
        n == Cardinality(at)
        Nth(k) == CHOOSE p \in at : Cardinality({q \in at : q < p}) = k - 1
    IN  [k \in 1..(n + 1) |->
            SubSeq(s, IF k = 1 THEN 1 ELSE Nth(k - 1) + 1,
                      IF k = n + 1 THEN Len(s) ELSE Nth(k) - 1)]

\* s.replace(/,/g, '')
RECURSIVE RemoveCommas(_)
RemoveCommas(s) ==
    IF s = "" THEN ""
    ELSE IF Char(s, 1) = "," THEN RemoveCommas(Tail(s))
         ELSE Char(s, 1) \o RemoveCommas(Tail(s))

\* s.padStart(2, '0')
RECURSIVE PadStart2(_)
PadStart2(s) == IF Len(s) >= 2 THEN s ELSE PadStart2("0" \o s)

\* The longest run of decimal digits of s that starts at position i.
RECURSIVE DigitRun(_, _)
DigitRun(s, i) ==
    IF i <= Len(s) /\ IsDigit(Char(s, i))
    THEN Char(s, i) \o DigitRun(s, i + 1)
    ELSE ""

RECURSIVE DigitsValue(_)
DigitsValue(ds) ==
    IF ds = "" THEN 0
    ELSE 10 * DigitsValue(SubSeq(ds, 1, Len(ds) - 1)) + DigitVal(Char(ds, Len(ds)))

-----------------------------------------------------------------------------
(* JavaScript numbers and parseFloat.                                      *)

Zero == [k |-> "fin", m |-> 0, x |-> 0]
NaN == [k |-> "nan", m |-> 0, x |-> 0]
Infinity(sign) == [k |-> "inf", m |-> sign, x |-> 0]

Abs(n) == IF n < 0 THEN 0 - n ELSE n

RECURSIVE Pow10(_)
Pow10(k) == IF k <= 0 THEN 1 ELSE 10 * Pow10(k - 1)

RECURSIVE NumDigits(_)
NumDigits(n) == IF n < 10 THEN 1 ELSE 1 + NumDigits(n \div 10)

\* m * 10^x with the trailing zeros of m moved into x.
RECURSIVE Normalize(_, _)
Normalize(m, x) ==
    IF m = 0 THEN Zero
    ELSE IF m % 10 = 0 THEN Normalize(m \div 10, x + 1)
         ELSE [k |-> "fin", m |-> m, x |-> x]

\* The first nine significant digits of a (a has at most nine).
Scale9(a) == a * Pow10(9 - NumDigits(a))

\* The double nearest to m * 10^x: beyond the largest double it is an
\* infinity (the rounding boundary is 1.797693134862315807e308), below half
\* the smallest one it is zero (2.4703282292062327e-324).
MakeNumber(m, x) ==
    IF m = 0 THEN Zero
    ELSE LET n == Normalize(m, x)
             a == Abs(n.m)
             order == NumDigits(a) + n.x - 1
             sign == IF m < 0 THEN 0 - 1 ELSE 1
         IN  IF order > 308 \/ (order = 308 /\ Scale9(a) >= 179769314)
             THEN Infinity(sign)
             ELSE IF order < 0 - 324 \/ (order = 0 - 324 /\ Scale9(a) <= 247032822)
                  THEN Zero
                  ELSE n

\* ToBoolean of a number: NaN and zero are falsy.
Truthy(n) == ~(n.k = "nan") /\ ~(n.k = "fin" /\ n.m = 0)

IsNegative(n) == n.k \in {"fin", "inf"} /\ n.m < 0

\* parseFloat(str): the longest prefix of the string, leading white space
\* skipped, that is a StrDecimalLiteral (sign, Infinity, or digits with an
\* optional fraction and an optional exponent); NaN when there is none.
ParseFloat(str) ==
    LET s == TrimStart(str)
        neg == StartsWith(s, "-")
        i == IF StartsWith(s, "-") \/ StartsWith(s, "+") THEN 2 ELSE 1
        sign == IF neg THEN 0 - 1 ELSE 1
        intDs == DigitRun(s, i)
        j == i + Len(intDs)
        hasDot == j <= Len(s) /\ Char(s, j) = "."
        fracDs == IF hasDot THEN DigitRun(s, j + 1) ELSE ""
        k == IF hasDot THEN j + 1 + Len(fracDs) ELSE j
        hasE == k <= Len(s) /\ Char(s, k) \in {"e", "E"}
        eSigned == hasE /\ k + 1 <= Len(s) /\ Char(s, k + 1) \in {"+", "-"}
        eDs == IF hasE THEN DigitRun(s, IF eSigned THEN k + 2 ELSE k + 1) ELSE ""
        eNeg == eSigned /\ Char(s, k + 1) = "-"
        exp == IF eNeg THEN 0 - DigitsValue(eDs) ELSE DigitsValue(eDs)
    IN  IF StartsWith(SubSeq(s, i, Len(s)), "Infinity") THEN Infinity(sign)
        ELSE IF Len(intDs) + Len(fracDs) = 0 THEN NaN
             ELSE MakeNumber(sign * DigitsValue(intDs \o fracDs), exp - Len(fracDs))

-----------------------------------------------------------------------------
(* UploadSection.tsx: the CSV parser and normalizer.                       *)

-----------------------------------------------------------------------------
(* Faulty variants of the functions below.  Each is one slip a maintainer  *)
(* could make; the properties at the end of the module tell them apart     *)
(* from the code.                                                          *)

\* parseCSVLine that splits at every comma, quoted or not.
parseCSVLine_EveryComma(line) ==
    LET pieces == Split(line, ",")
    IN  [k \in 1..Len(pieces) |-> Trim(pieces[k])]

\* parseNumber that leaves the thousands separators in place.
parseNumber_KeepCommas(value) ==
    IF value = "" THEN Zero
    ELSE LET parsed == ParseFloat(value)
         IN  IF Truthy(parsed) THEN parsed ELSE Zero

RECURSIVE ParseCSVLineFrom(_, _, _, _, _)
ParseCSVLineFrom(line, i, result, current, inQuotes) ==
    IF i > Len(line) THEN Append(result, Trim(current))
    ELSE LET char == Char(line, i)
         IN  IF char = "\""
             THEN ParseCSVLineFrom(line, i + 1, result, current, ~inQuotes)
             ELSE IF char = "," /\ ~inQuotes
                  THEN ParseCSVLineFrom(line, i + 1, Append(result, Trim(current)), "", inQuotes)
                  ELSE ParseCSVLineFrom(line, i + 1, result, current \o char, inQuotes)

parseCSVLine(line) == ParseCSVLineFrom(line, 1, <<>>, "", FALSE)

parseNumber(value) ==
    IF value = "" THEN Zero
    ELSE LET cleaned == RemoveCommas(value)
             parsed == ParseFloat(cleaned)
         IN  IF Truthy(parsed) THEN parsed ELSE Zero

IsDateSep(c) == c \in {"/", "-"}

AllDigits(s) == \A i \in 1..Len(s) : IsDigit(Char(s, i))

\* The pieces of a string that matches ^(\d{a})[/-](\d{1,2})[/-](\d{c})$ for
\* first-part length a and last-part length c; <<>> when it does not match.
DateParts(s, firstLens, lastLens) ==
    LET fits == {p \in firstLens \X {1, 2} \X lastLens :
                    /\ Len(s) = p[1] + 1 + p[2] + 1 + p[3]
                    /\ AllDigits(SubSeq(s, 1, p[1]))
                    /\ IsDateSep(Char(s, p[1] + 1))
                    /\ AllDigits(SubSeq(s, p[1] + 2, p[1] + 1 + p[2]))
                    /\ IsDateSep(Char(s, p[1] + p[2] + 2))
                    /\ AllDigits(SubSeq(s, p[1] + p[2] + 3, Len(s)))}
    IN  IF fits = {} THEN <<>>
        ELSE LET p == CHOOSE q \in fits : TRUE
             IN  <<SubSeq(s, 1, p[1]),
                   SubSeq(s, p[1] + 2, p[1] + 1 + p[2]),
                   SubSeq(s, p[1] + p[2] + 3, Len(s))>>

\* /^\d{4}[/-]\d{1,2}[/-]\d{1,2}$/ and its split(/[/-]/)
MatchYMD(s) == DateParts(s, {4}, {1, 2})

\* /^\d{1,2}[/-]\d{1,2}[/-]\d{4}$/ and its split(/[/-]/)
MatchMDY(s) == DateParts(s, {1, 2}, {4})

\* normalizeDate without padStart.
normalizeDate_NoPad(dateStr) ==
    IF dateStr = "" THEN ""
    ELSE LET cleaned == Trim(dateStr)
             ymd == MatchYMD(cleaned)
             mdy == MatchMDY(cleaned)
         IN  IF ymd # <<>>
             THEN ymd[1] \o "-" \o ymd[2] \o "-" \o ymd[3]
             ELSE IF mdy # <<>>
                  THEN mdy[3] \o "-" \o mdy[1] \o "-" \o mdy[2]
                  ELSE cleaned

\* normalizeDate whose first branch writes day-month-year.
normalizeDate_DayFirst(dateStr) ==
    IF dateStr = "" THEN ""
    ELSE LET cleaned == Trim(dateStr)
             ymd == MatchYMD(cleaned)
             mdy == MatchMDY(cleaned)
         IN  IF ymd # <<>>
             THEN PadStart2(ymd[3]) \o "-" \o PadStart2(ymd[2]) \o "-" \o ymd[1]
             ELSE IF mdy # <<>>
                  THEN mdy[3] \o "-" \o PadStart2(mdy[1]) \o "-" \o PadStart2(mdy[2])
                  ELSE cleaned

\* normalizeDate whose second branch reads D/M/YYYY.
normalizeDate_SwapMDY(dateStr) ==
    IF dateStr = "" THEN ""
    ELSE LET cleaned == Trim(dateStr)
             ymd == MatchYMD(cleaned)
             mdy == MatchMDY(cleaned)
         IN  IF ymd # <<>>
             THEN ymd[1] \o "-" \o PadStart2(ymd[2]) \o "-" \o PadStart2(ymd[3])
             ELSE IF mdy # <<>>
                  THEN mdy[3] \o "-" \o PadStart2(mdy[2]) \o "-" \o PadStart2(mdy[1])
                  ELSE cleaned

normalizeDate(dateStr) ==
    IF dateStr = "" THEN ""
    ELSE LET cleaned == Trim(dateStr)
             ymd == MatchYMD(cleaned)
             mdy == MatchMDY(cleaned)
         IN  IF ymd # <<>>
             THEN ymd[1] \o "-" \o PadStart2(ymd[2]) \o "-" \o PadStart2(ymd[3])
             ELSE IF mdy # <<>>
                  THEN mdy[3] \o "-" \o PadStart2(mdy[1]) \o "-" \o PadStart2(mdy[2])
                  ELSE cleaned

\* lines 87-107: the canonical field a (lower-cased) header feeds; the first
\* branch of the else-if chain that matches wins, "" when none does.
HeaderField(header) ==
    IF Includes(header, "date") \/ header = "date" THEN "date"
    ELSE IF Includes(header, "category") /\ ~Includes(header, "sub") THEN "category"
    ELSE IF Includes(header, "subcategory") \/ Includes(header, "sub") THEN "subcategory"
    ELSE IF Includes(header, "income") THEN "income"
    ELSE IF Includes(header, "expense") THEN "expense"
    ELSE IF Includes(header, "note") \/ Includes(header, "description") THEN "note"
    ELSE IF Includes(header, "paid") THEN "paid_from"
    ELSE ""

\* What the branch of a field stores: the date normalized, the amounts parsed.
FieldValue(field, value) ==
    IF field = "date" THEN normalizeDate(value)
    ELSE IF field \in {"income", "expense"} THEN parseNumber(value)
    ELSE value

\* Headers without toLowerCase.
Headers_CaseSensitive(line) ==
    LET hs == parseCSVLine(line)
    IN  [i \in 1..Len(hs) |-> Trim(hs[i])]

\* line 75
Headers(line) ==
    LET hs == parseCSVLine(line)
    IN  [i \in 1..Len(hs) |-> ToLowerCase(Trim(hs[i]))]

\* The forEach that takes the date from the first column, whichever column
\* the date header names.
RECURSIVE BuildFrom_DateFirst(_, _, _, _)
BuildFrom_DateFirst(headers, values, index, transaction) ==
    IF index > Len(headers) THEN transaction
    ELSE LET field == HeaderField(headers[index])
             at == IF field = "date" THEN 1 ELSE index
             value == IF at <= Len(values) THEN values[at] ELSE ""
         IN  BuildFrom_DateFirst(headers, values, index + 1,
                 IF field = "" THEN transaction
                 ELSE [f \in DOMAIN transaction \cup {field} |->
                          IF f = field THEN FieldValue(field, value) ELSE transaction[f]])

\* lines 82-108: headers.forEach over one data line; a later column that feeds
\* the same field overwrites an earlier one.
RECURSIVE BuildFrom(_, _, _, _)
BuildFrom(headers, values, index, transaction) ==
    IF index > Len(headers) THEN transaction
    ELSE LET value == IF index <= Len(values) THEN values[index] ELSE ""
             field == HeaderField(headers[index])
         IN  BuildFrom(headers, values, index + 1,
                 IF field = "" THEN transaction
                 ELSE [f \in DOMAIN transaction \cup {field} |->
                          IF f = field THEN FieldValue(field, value) ELSE transaction[f]])

EmptyObject == [f \in {} |-> ""]

BuildTransaction(headers, values) == BuildFrom(headers, values, 1, EmptyObject)

\* The field-count test with 2 for 3.
TooFewFields_Two(values) == Len(values) < 2

\* The acceptance test without the category.
Accepted_DateOnly(transaction) ==
    "date" \in DOMAIN transaction /\ transaction["date"] # ""

\* line 80
TooFewFields(values) == Len(values) < 3

\* line 110
Accepted(transaction) ==
    /\ "date" \in DOMAIN transaction /\ transaction["date"] # ""
    /\ "category" \in DOMAIN transaction /\ transaction["category"] # ""

RECURSIVE ParseLinesFrom(_, _, _)
ParseLinesFrom(headers, lines, i) ==
    IF i > Len(lines) THEN <<>>
    ELSE LET values == parseCSVLine(lines[i])
             transaction == BuildTransaction(headers, values)
         IN  IF TooFewFields(values) THEN ParseLinesFrom(headers, lines, i + 1)
             ELSE IF Accepted(transaction)
                  THEN <<transaction>> \o ParseLinesFrom(headers, lines, i + 1)
                  ELSE ParseLinesFrom(headers, lines, i + 1)

parseCSV(text) ==
    LET lines == Split(Trim(text), "\n")
    IN  ParseLinesFrom(Headers(lines[1]), lines, 2)

\* x || fallback for a string property that may be missing
StringOr(t, f, fallback) == IF f \in DOMAIN t /\ t[f] # "" THEN t[f] ELSE fallback

\* x || 0 for a number property that may be missing
NumberOrZero(t, f) == IF f \in DOMAIN t /\ Truthy(t[f]) THEN t[f] ELSE Zero

\* lines 138-149: one row of transactionsToInsert
ToInsert(t, bookId, userId) ==
    [book_id |-> bookId,
     user_id |-> userId,
     date |-> t["date"],
     category |-> StringOr(t, "category", "Uncategorized"),
     subcategory |-> IF StringOr(t, "subcategory", "") = "" THEN Null ELSE Some(t["subcategory"]),
     income |-> NumberOrZero(t, "income"),
     expense |-> NumberOrZero(t, "expense"),
     note |-> IF StringOr(t, "note", "") = "" THEN Null ELSE Some(t["note"]),
     paid_from |-> IF StringOr(t, "paid_from", "") = "" THEN Null ELSE Some(t["paid_from"]),
     labels |-> Null]

TransactionsToInsert(parsedTransactions, bookId, userId) ==
    [i \in 1..Len(parsedTransactions) |-> ToInsert(parsedTransactions[i], bookId, userId)]

-----------------------------------------------------------------------------
(* Inputs of the pure functions.                                           *)

\* Every string over the alphabet of length at most n.
RECURSIVE Strings(_, _)
Strings(alphabet, n) ==
    IF n = 0 THEN {""}
    ELSE LET shorter == Strings(alphabet, n - 1)
         IN  shorter \cup {c \o s : c \in alphabet, s \in shorter}

RECURSIVE Join(_, _)
Join(fields, sep) ==
    IF Len(fields) = 0 THEN ""
    ELSE IF Len(fields) = 1 THEN fields[1]
         ELSE fields[1] \o sep \o Join(Tail(fields), sep)

UpperChar(c) ==
    IF \E i \in 1..26 : Char(LowerLetters, i) = c
    THEN Char(UpperLetters, CHOOSE i \in 1..26 : Char(LowerLetters, i) = c)
    ELSE c

RECURSIVE ToUpperCase(_)
ToUpperCase(s) ==
    IF s = "" THEN "" ELSE UpperChar(Char(s, 1)) \o ToUpperCase(Tail(s))

Capitalize(s) == IF s = "" THEN "" ELSE UpperChar(Char(s, 1)) \o Tail(s)

\* Lines for parseCSVLine: commas, quotes, blanks and a letter.
LineAlphabet == {"a", ",", "\"", " "}
LineInputs == Strings(LineAlphabet, MaxLineLen)

\* Strings for parseNumber: digits, the decimal point, the thousands
\* separator, a sign, an exponent mark and a letter; and some longer ones.
NumAlphabet == {"1", "0", ".", ",", "-", "e", "a"}
NumExtras == {"1,234.50", "12.50", "12.5", "1234.5", "Infinity", "-Infinity",
              "1e999", "5e-999", " 7", "+3", "2E2", "$5", "12abc", "0.0"}
NumInputs == Strings(NumAlphabet, MaxNumLen) \cup NumExtras

\* Strings for normalizeDate: three digit groups of every length from one to
\* five around two separators, with up to MaxPad blanks on each side; and
\* some other shapes.
DateGroups == {"5", "12", "05", "123", "2024", "02024"}
DateSeps == {"-", "/", "."}
Pads == Strings({" "}, MaxPad)
DateExtras == {"", " ", "abc", "2024-03", "Mar 5, 2024", "2024-03-05T10:00", "5-2024"}
DateInputs ==
    {p1 \o a \o s1 \o b \o s2 \o c \o p2 :
        p1 \in Pads, a \in DateGroups, s1 \in DateSeps, b \in DateGroups,
        s2 \in DateSeps, c \in DateGroups, p2 \in Pads}
    \cup DateExtras

\* Headers: up to two of the words the mapping looks for (or another word),
\* in lower case, capitalized and in upper case.
HeaderWords == {"", "date", "category", "sub", "income", "expense", "note",
                "description", "paid", "x"}
HeaderInputs ==
    LET lower == {a \o b : a \in HeaderWords, b \in HeaderWords}
    IN  lower \cup {Capitalize(h) : h \in lower} \cup {ToUpperCase(h) : h \in lower}

\* CSV files: a header line and up to MaxDataLines data lines, with or
\* without a final line break.
FileHeaders == {"Date,Category,Income,Expense",
                "Date,Category,Subcategory,Income,Expense,Note,Paid from",
                "date,category,note"}
DataLines == {"2024/3/5,Food,0,12.50",
              "3/5/2024,Rent,\"1,234.50\",0",
              "",
              "a,b",
              ",Food,1,2",
              "2024-01-02,,5,5",
              "2024-01-02,Food,-5,abc",
              "2024-01-03,Food",
              "not a date, Misc ,,\r",
              "2024-01-04,Food,Lunch,,8,\"a, b\",Cash"}

RECURSIVE LineSeqs(_)
LineSeqs(n) ==
    IF n = 0 THEN {<<>>}
    ELSE LET shorter == LineSeqs(n - 1)
         IN  shorter \cup {<<l>> \o ls : l \in DataLines, ls \in shorter}

FileInputs ==
    {Join(<<h>> \o ls, "\n") \o e :
        h \in FileHeaders, ls \in LineSeqs(MaxDataLines), e \in {"", "\n"}}

\* Column permutations: NumCols header names, two data lines whose fields
\* differ from column to column, and a permutation of the columns.
PermHeaderNames == {"Date", "Category", "Income", "Post Date", "Memo"}
ValuePool == <<"2024/3/5", "Food", "7", "1/2/2023", "Rent">>
ValueAt(row, col) == ValuePool[((row + col - 2) % Len(ValuePool)) + 1]
PermRows == [r \in 1..2 |-> [c \in 1..NumCols |-> ValueAt(r, c)]]
PermInputs ==
    {[headers |-> hs, rows |-> PermRows, perm |-> p] :
        hs \in [1..NumCols -> PermHeaderNames], p \in Permutations(1..NumCols)}

Permute(fields, p) == [i \in 1..Len(fields) |-> fields[p[i]]]

CsvText(headers, rows) ==
    Join(<<Join(headers, ",")>> \o [r \in 1..Len(rows) |-> Join(rows[r], ",")], "\n")

-----------------------------------------------------------------------------
(* The store: public.transactions of the migration.                        *)

NullNumber == [k |-> "null", m |-> 0, x |-> 0]

\* A JSON number sent to a DECIMAL(12, 2) column: JSON has no Infinity or NaN
\* (they are sent as null); other values are rounded to two decimals, half
\* away from zero.
StoreDecimal(n) ==
    IF n.k # "fin" THEN NullNumber
    ELSE IF n.x >= 0 - 2 THEN n
    ELSE LET d == (0 - 2) - n.x
             a == Abs(n.m)
             sign == IF n.m < 0 THEN 0 - 1 ELSE 1
         IN  IF NumDigits(a) < d THEN Zero
             ELSE Normalize(sign * ((a + 5 * Pow10(d - 1)) \div Pow10(d)), 0 - 2)

\* DECIMAL(12, 2) holds fewer than ten digits before the decimal point.
DecimalOverflow(n) ==
    LET r == StoreDecimal(n)
    IN  r.k = "fin" /\ r.m # 0 /\ NumDigits(Abs(r.m)) + r.x > 10

IsLeapYear(y) == y % 4 = 0 /\ (y % 100 # 0 \/ y % 400 = 0)

DaysInMonth(y, m) ==
    IF m = 2 THEN (IF IsLeapYear(y) THEN 29 ELSE 28)
    ELSE IF m \in {4, 6, 9, 11} THEN 30 ELSE 31

\* A DATE column takes a YYYY-MM-DD string that names a day of the calendar.
\* (Other spellings the store may also read are not among the model's inputs.)
ValidDate(s) ==
    /\ Len(s) = 10
    /\ AllDigits(SubSeq(s, 1, 4)) /\ Char(s, 5) = "-"
    /\ AllDigits(SubSeq(s, 6, 7)) /\ Char(s, 8) = "-"
    /\ AllDigits(SubSeq(s, 9, 10))
    /\ LET y == DigitsValue(SubSeq(s, 1, 4))
           m == DigitsValue(SubSeq(s, 6, 7))
           d == DigitsValue(SubSeq(s, 9, 10))
       IN  y >= 1 /\ m \in 1..12 /\ d \in 1..DaysInMonth(y, m)

DateKey(s) ==
    DigitsValue(SubSeq(s, 1, 4)) * 10000 + DigitsValue(SubSeq(s, 6, 7)) * 100
        + DigitsValue(SubSeq(s, 9, 10))

\* Whether the store takes the bulk insert: every row needs a valid date and
\* amounts that fit their columns.
InsertAccepted(rows) ==
    \A i \in 1..Len(rows) :
        /\ ValidDate(rows[i].date)
        /\ ~DecimalOverflow(rows[i].income)
        /\ ~DecimalOverflow(rows[i].expense)

\* migration line 17, REFERENCES public.books(id): the check is not subject to the
\* policies.
References(bookId, bookRows) == \E i \in 1..Len(bookRows) : bookRows[i].id = bookId

\* The rows as stored: an id from the store, the amounts as the columns hold them.
StoredRows(rows, firstId) ==
    [i \in 1..Len(rows) |->
        [id |-> firstId + i - 1,
         book_id |-> rows[i].book_id,
         user_id |-> rows[i].user_id,
         paid_from |-> rows[i].paid_from,
         date |-> rows[i].date,
         category |-> rows[i].category,
         subcategory |-> rows[i].subcategory,
         income |-> StoreDecimal(rows[i].income),
         expense |-> StoreDecimal(rows[i].expense),
         note |-> rows[i].note,
         labels |-> rows[i].labels]]

RECURSIVE SelectSeq2(_, _)
SelectSeq2(rows, bookId) ==
    IF Len(rows) = 0 THEN <<>>
    ELSE IF Head(rows).book_id = bookId
         THEN <<Head(rows)>> \o SelectSeq2(Tail(rows), bookId)
         ELSE SelectSeq2(Tail(rows), bookId)

\* The orders of the rows (given by their indices) with the dates descending:
\* a row of the latest date first, then the others in such an order.
RECURSIVE DateDescending(_, _)
DateDescending(hit, indices) ==
    IF indices = {} THEN {<<>>}
    ELSE LET latest == {i \in indices :
                          \A j \in indices : DateKey(hit[i].date) >= DateKey(hit[j].date)}
         IN  UNION {{<<hit[i]>> \o rest : rest \in DateDescending(hit, indices \ {i})} :
                        i \in latest}

\* select * where book_id = bookId order by date desc: rows of one date come
\* in any order.
QueryResults(rows, bookId) ==
    UNION {DateDescending(hit, 1..Len(hit)) : hit \in {SelectSeq2(rows, bookId)}}

-----------------------------------------------------------------------------
(* The application: one signed-in user with one selected book.             *)

BookId == "book1"
UserId == "user1"

\* The files the user picks from.
AppFiles ==
    {[name |-> "statement.csv",
      text |-> "Date,Category,Income,Expense\n2024/3/5,Food,0,12.50\n3/9/2024,Refund,-5,abc"],
     [name |-> "rent.csv",
      text |-> "Date,Category,Expense\n2024-01-02,Rent,\"1,234.50\"\n"],
     [name |-> "blank.csv",
      text |-> "Date,Category,Income\n,Food,1\nx,y"],
     [name |-> "notes.csv",
      text |-> "date,category,note\nnot a date,Misc,hi"],
     [name |-> "statement.txt",
      text |-> "Date,Category,Income,Expense\n2024/3/5,Food,0,12.50"]}

\* parseCSV of each file's text, computed once.
ParsedFiles == [text \in {f.text : f \in AppFiles} |-> parseCSV(text)]

\* What the user types into the edit form.
CategoryInputs == {"Misc"}
IncomeInputs == {"-3"}
ExpenseInputs == {"2.5"}

NoToast == [type |-> "none", message |-> "", count |-> 0]
ErrorToast(message) == [type |-> "error", message |-> message, count |-> 0]
SuccessToast(message, count) == [type |-> "success", message |-> message, count |-> count]

Remove(seq, i) == SubSeq(seq, 1, i - 1) \o SubSeq(seq, i + 1, Len(seq))

\* Dashboard.loadTransactions up to its await: the request is in flight.
LoadRequested(bookId) == Append(loads, bookId)

AppInit ==
    /\ dbTransactions = <<>>
    /\ nextId = 1
    /\ uploadPc = "idle"
    /\ file = Null
    /\ transactionsToInsert = <<>>
    /\ isUploading = FALSE
    /\ uploadCompleteCalls = 0
    /\ editingTransaction = Null
    /\ formData = EmptyObject
    /\ savePc = "idle"
    /\ updateRequest = Null
    /\ transactions = <<>>
    /\ loads = <<>>
    /\ toast = NoToast
    /\ updateCalls = 0
    /\ requests = 0

FnIdle == fnKind = "none" /\ fnIn = "" /\ fnOut = <<>> /\ fnPc = "idle"

\* A row of public.books.
Book(id, owner, name) == [id |-> id, user_id |-> owner, name |-> name, currency |-> "USD"]

Book1 == Book(BookId, UserId, "Home")

\* The user's one book is loaded and selected, and nothing is asked of the
\* books.
BooksLoaded ==
    /\ dbBooks = <<Book1>> /\ nextBookId = 2
    /\ books = <<Book1>> /\ selectedBook = Some(Book1)
    /\ booksPc = "idle" /\ createRequests = <<>> /\ deleteRequest = Null

SqlIdle == authUid = UserId /\ sqlResponse = <<>>

\* ChartSection is not mounted.
ChartIdle == timePeriod = "monthly" /\ currentDate = Null /\ navSteps = 0

uploadVars == <<uploadPc, file, transactionsToInsert, isUploading, uploadCompleteCalls>>
tableVars == <<editingTransaction, formData, savePc, updateRequest, updateCalls>>
storeVars == <<dbTransactions, nextId>>
dashboardVars == <<transactions, loads>>

\* handleFileSelect, lines 118-127: a file is picked; the input is disabled
\* while an upload runs.  The handler keeps the bookId and the
\* onUploadComplete it was rendered with.  (MaxRequests bounds the uploads and updates the user
\* starts in a run.)
SelectFile(f) ==
    /\ selectedBook # Null
    /\ ~isUploading
    /\ uploadPc = "idle"
    /\ requests < MaxRequests
    /\ IF ~EndsWith(f.name, ".csv")
       THEN /\ toast' = ErrorToast("Please upload a CSV file")
            /\ UNCHANGED <<uploadPc, file, isUploading>>
       ELSE /\ isUploading' = TRUE
            /\ uploadPc' = "reading"
            /\ file' = Some([name |-> f.name, text |-> f.text,
                              bookId |-> selectedBook[1].id])
            /\ UNCHANGED toast
    /\ requests' = requests + 1
    /\ UNCHANGED <<transactionsToInsert, uploadCompleteCalls>>
    /\ UNCHANGED <<tableVars, storeVars, dashboardVars, fnVars, chartVars, bookVars, sqlVars>>

\* Faulty variant: the insert is sent whether or not a record was parsed.
FileRead_NoEmptyCheck ==
    /\ uploadPc = "reading"
    /\ transactionsToInsert' =
           TransactionsToInsert(ParsedFiles[file[1].text], file[1].bookId, UserId)
    /\ uploadPc' = "inserting"
    /\ UNCHANGED <<toast, isUploading, file, uploadCompleteCalls>>
    /\ UNCHANGED <<tableVars, storeVars, dashboardVars, fnVars, chartVars, bookVars, sqlVars>>
    /\ UNCHANGED requests

\* lines 130-153: the text arrives, is parsed, and the insert is sent; with no
\* record the run ends in a toast (and the finally block).
FileRead ==
    /\ uploadPc = "reading"
    /\ LET parsedTransactions == ParsedFiles[file[1].text]
       IN  IF Len(parsedTransactions) = 0
           THEN /\ toast' = ErrorToast("No valid transactions found in CSV")
                /\ isUploading' = FALSE
                /\ uploadPc' = "idle"
                /\ file' = Null
                /\ UNCHANGED transactionsToInsert
           ELSE /\ transactionsToInsert' =
                       TransactionsToInsert(parsedTransactions, file[1].bookId, UserId)
                /\ uploadPc' = "inserting"
                /\ UNCHANGED <<toast, isUploading, file>>
    /\ UNCHANGED uploadCompleteCalls
    /\ UNCHANGED <<tableVars, storeVars, dashboardVars, fnVars, chartVars, bookVars, sqlVars>>
    /\ UNCHANGED requests

\* lines 130, 163-167: reading the file fails.
FileReadFails ==
    /\ uploadPc = "reading"
    /\ toast' = ErrorToast("Failed to upload CSV")
    /\ isUploading' = FALSE
    /\ uploadPc' = "idle"
    /\ file' = Null
    /\ UNCHANGED <<transactionsToInsert, uploadCompleteCalls>>
    /\ UNCHANGED <<tableVars, storeVars, dashboardVars, fnVars, chartVars, bookVars, sqlVars>>
    /\ UNCHANGED requests

\* lines 151-167 and Dashboard.handleUploadComplete: the insert succeeded.
InsertResolved ==
    /\ uploadPc = "inserting"
    /\ InsertAccepted(transactionsToInsert)
    /\ \A i \in 1..Len(transactionsToInsert) :
           References(transactionsToInsert[i].book_id, dbBooks)
    /\ dbTransactions' = dbTransactions \o StoredRows(transactionsToInsert, nextId)
    /\ nextId' = nextId + Len(transactionsToInsert)
    /\ toast' = SuccessToast("Successfully uploaded", Len(transactionsToInsert))
    /\ uploadCompleteCalls' = uploadCompleteCalls + 1
    /\ loads' = LoadRequested(file[1].bookId)
    /\ isUploading' = FALSE
    /\ uploadPc' = "idle"
    /\ file' = Null
    /\ transactionsToInsert' = <<>>
    /\ UNCHANGED transactions
    /\ UNCHANGED <<tableVars, fnVars, chartVars, bookVars, sqlVars>>
    /\ UNCHANGED requests

\* Faulty variant: isUploading is reset at the end of the try block, not in a
\* finally block.
InsertRejected_NoFinally ==
    /\ uploadPc = "inserting"
    /\ toast' = ErrorToast("Failed to upload CSV")
    /\ uploadPc' = "idle"
    /\ file' = Null
    /\ transactionsToInsert' = <<>>
    /\ UNCHANGED <<isUploading, uploadCompleteCalls>>
    /\ UNCHANGED <<tableVars, storeVars, dashboardVars, fnVars, chartVars, bookVars, sqlVars>>
    /\ UNCHANGED requests

\* lines 155, 163-167: the insert failed (the store refused it, or the
\* request did not get through).  The toast shows the error's own message
\* when it has one; the model keeps the fallback text for every failure.
InsertRejected ==
    /\ uploadPc = "inserting"
    /\ toast' = ErrorToast("Failed to upload CSV")
    /\ isUploading' = FALSE
    /\ uploadPc' = "idle"
    /\ file' = Null
    /\ transactionsToInsert' = <<>>
    /\ UNCHANGED uploadCompleteCalls
    /\ UNCHANGED <<tableVars, storeVars, dashboardVars, fnVars, chartVars, bookVars, sqlVars>>
    /\ UNCHANGED requests

\* Faulty variant: the response of a request for a book that is no longer the
\* selected one is dropped.
LoadResolved_OnlySelected(i) ==
    /\ loads' = Remove(loads, i)
    /\ IF selectedBook = Null \/ selectedBook[1].id # loads[i]
       THEN UNCHANGED transactions
       ELSE transactions' \in QueryResults(dbTransactions, loads[i])
    /\ UNCHANGED toast
    /\ UNCHANGED <<uploadVars, tableVars, storeVars, fnVars, chartVars, bookVars, sqlVars>>
    /\ UNCHANGED requests

\* Dashboard.loadTransactions, lines 101-108: the store answers the query and
\* the response replaces the list, whichever request it belongs to.
LoadResolved(i) ==
    /\ loads' = Remove(loads, i)
    /\ transactions' \in QueryResults(dbTransactions, loads[i])
    /\ UNCHANGED toast
    /\ UNCHANGED <<uploadVars, tableVars, storeVars, fnVars, chartVars, bookVars, sqlVars>>
    /\ UNCHANGED requests

\* Dashboard.loadTransactions, lines 109-111: the request failed.
LoadRejected(i) ==
    /\ toast' = ErrorToast("Failed to load transactions")
    /\ loads' = Remove(loads, i)
    /\ UNCHANGED transactions
    /\ UNCHANGED <<uploadVars, tableVars, storeVars, fnVars, chartVars, bookVars, sqlVars>>
    /\ UNCHANGED requests

\* TransactionsTable.handleEdit: the pencil of a listed row.  The dialog is
\* modal, so no other row is opened while it shows.
handleEdit(i) ==
    /\ selectedBook # Null
    /\ editingTransaction = Null
    /\ editingTransaction' = Some(transactions[i])
    /\ formData' = transactions[i]
    /\ UNCHANGED <<savePc, updateRequest, updateCalls, toast>>
    /\ UNCHANGED <<uploadVars, storeVars, dashboardVars, fnVars, chartVars, bookVars, sqlVars>>
    /\ UNCHANGED requests

\* parseFloat(e.target.value) || 0 of the amount inputs
AmountInput(value) ==
    LET parsed == ParseFloat(value) IN IF Truthy(parsed) THEN parsed ELSE Zero

ChangeCategory(value) ==
    /\ editingTransaction # Null
    /\ formData' = [formData EXCEPT !.category = value]
    /\ UNCHANGED <<editingTransaction, savePc, updateRequest, updateCalls, toast>>
    /\ UNCHANGED <<uploadVars, storeVars, dashboardVars, fnVars, chartVars, bookVars, sqlVars>>
    /\ UNCHANGED requests

ChangeIncome(value) ==
    /\ editingTransaction # Null
    /\ formData' = [formData EXCEPT !.income = AmountInput(value)]
    /\ UNCHANGED <<editingTransaction, savePc, updateRequest, updateCalls, toast>>
    /\ UNCHANGED <<uploadVars, storeVars, dashboardVars, fnVars, chartVars, bookVars, sqlVars>>
    /\ UNCHANGED requests

ChangeExpense(value) ==
    /\ editingTransaction # Null
    /\ formData' = [formData EXCEPT !.expense = AmountInput(value)]
    /\ UNCHANGED <<editingTransaction, savePc, updateRequest, updateCalls, toast>>
    /\ UNCHANGED <<uploadVars, storeVars, dashboardVars, fnVars, chartVars, bookVars, sqlVars>>
    /\ UNCHANGED requests

\* The dialog's onOpenChange.  (The form is read and written only while the
\* dialog is open and handleEdit overwrites it: the model forgets it here.)
CloseDialog ==
    /\ editingTransaction # Null
    /\ editingTransaction' = Null
    /\ formData' = EmptyObject
    /\ UNCHANGED <<savePc, updateRequest, updateCalls, toast>>
    /\ UNCHANGED <<uploadVars, storeVars, dashboardVars, fnVars, chartVars, bookVars, sqlVars>>
    /\ UNCHANGED requests

\* handleSave, lines 41-55: the update is sent.  (One update is in flight at
\* a time.)
handleSave ==
    /\ selectedBook # Null
    /\ editingTransaction # Null
    /\ savePc = "idle"
    /\ requests < MaxRequests
    /\ requests' = requests + 1
    /\ updateRequest' = Some([bookId |-> selectedBook[1].id,
                              id |-> editingTransaction[1].id,
                              category |-> formData.category,
                              subcategory |-> formData.subcategory,
                              income |-> formData.income,
                              expense |-> formData.expense,
                              note |-> formData.note,
                              labels |-> formData.labels])
    /\ savePc' = "updating"
    /\ UNCHANGED <<editingTransaction, formData, updateCalls, toast>>
    /\ UNCHANGED <<uploadVars, storeVars, dashboardVars, fnVars, chartVars, bookVars, sqlVars>>

\* Faulty variant: the update is not restricted to the row of the id.
UpdatedRows_EveryRow(rows, request) ==
    [i \in 1..Len(rows) |->
        [rows[i] EXCEPT !.category = request.category,
                        !.subcategory = request.subcategory,
                        !.income = StoreDecimal(request.income),
                        !.expense = StoreDecimal(request.expense),
                        !.note = request.note,
                        !.labels = request.labels]]

\* update ... where id = request.id
UpdatedRows(rows, request) ==
    [i \in 1..Len(rows) |->
        IF rows[i].id = request.id
        THEN [rows[i] EXCEPT !.category = request.category,
                             !.subcategory = request.subcategory,
                             !.income = StoreDecimal(request.income),
                             !.expense = StoreDecimal(request.expense),
                             !.note = request.note,
                             !.labels = request.labels]
        ELSE rows[i]]

\* handleSave, lines 57-61: the update succeeded; onUpdate reloads the list.
UpdateResolved ==
    /\ savePc = "updating"
    /\ ~DecimalOverflow(updateRequest[1].income)
    /\ ~DecimalOverflow(updateRequest[1].expense)
    /\ dbTransactions' = UpdatedRows(dbTransactions, updateRequest[1])
    /\ toast' = SuccessToast("Transaction updated successfully", 0)
    /\ editingTransaction' = Null
    /\ updateCalls' = updateCalls + 1
    /\ loads' = LoadRequested(updateRequest[1].bookId)
    /\ savePc' = "idle"
    /\ updateRequest' = Null
    /\ formData' = EmptyObject
    /\ UNCHANGED <<nextId, transactions>>
    /\ UNCHANGED <<uploadVars, fnVars, chartVars, bookVars, sqlVars>>
    /\ UNCHANGED requests

\* Faulty variant: a failed update closes the dialog.
UpdateRejected_ClosesDialog ==
    /\ savePc = "updating"
    /\ toast' = ErrorToast("Failed to update transaction")
    /\ savePc' = "idle"
    /\ updateRequest' = Null
    /\ editingTransaction' = Null
    /\ formData' = EmptyObject
    /\ UNCHANGED updateCalls
    /\ UNCHANGED <<uploadVars, storeVars, dashboardVars, fnVars, chartVars, bookVars, sqlVars>>
    /\ UNCHANGED requests

\* handleSave, lines 62-64: the update failed.
UpdateRejected ==
    /\ savePc = "updating"
    /\ toast' = ErrorToast("Failed to update transaction")
    /\ savePc' = "idle"
    /\ updateRequest' = Null
    /\ UNCHANGED <<editingTransaction, formData, updateCalls>>
    /\ UNCHANGED <<uploadVars, storeVars, dashboardVars, fnVars, chartVars, bookVars, sqlVars>>
    /\ UNCHANGED requests

Next ==
    \/ \E f \in AppFiles : SelectFile(f)
    \/ FileRead
    \/ FileReadFails
    \/ InsertResolved
    \/ InsertRejected
    \/ \E i \in 1..Len(loads) : LoadResolved(i)
    \/ \E i \in 1..Len(loads) : LoadRejected(i)
    \/ \E i \in 1..Len(transactions) : handleEdit(i)
    \/ \E v \in CategoryInputs : ChangeCategory(v)
    \/ \E v \in IncomeInputs : ChangeIncome(v)
    \/ \E v \in ExpenseInputs : ChangeExpense(v)
    \/ CloseDialog
    \/ handleSave
    \/ UpdateResolved
    \/ UpdateRejected

Init == AppInit /\ FnIdle /\ ChartIdle /\ BooksLoaded /\ SqlIdle

Spec == Init /\ [][Next]_vars

-----------------------------------------------------------------------------
(* One application of a function of UploadSection.tsx to one input.        *)

PureInit ==
    /\ AppInit
    /\ ChartIdle
    /\ BooksLoaded
    /\ SqlIdle
    /\ fnPc = "ready"
    /\ fnOut = <<>>
    /\ \/ fnKind = "line" /\ fnIn \in LineInputs
       \/ fnKind = "number" /\ fnIn \in NumInputs
       \/ fnKind = "date" /\ fnIn \in DateInputs
       \/ fnKind = "header" /\ fnIn \in HeaderInputs
       \/ fnKind = "file" /\ fnIn \in FileInputs
       \/ fnKind = "columns" /\ fnIn \in PermInputs

ApplyParseCSVLine ==
    /\ fnKind = "line" /\ fnPc = "ready"
    /\ fnOut' = parseCSVLine(fnIn)
    /\ fnPc' = "done"
    /\ UNCHANGED <<fnKind, fnIn, appVars, chartVars, bookVars, sqlVars>>

ApplyParseNumber ==
    /\ fnKind = "number" /\ fnPc = "ready"
    /\ fnOut' = parseNumber(fnIn)
    /\ fnPc' = "done"
    /\ UNCHANGED <<fnKind, fnIn, appVars, chartVars, bookVars, sqlVars>>

ApplyNormalizeDate ==
    /\ fnKind = "date" /\ fnPc = "ready"
    /\ fnOut' = normalizeDate(fnIn)
    /\ fnPc' = "done"
    /\ UNCHANGED <<fnKind, fnIn, appVars, chartVars, bookVars, sqlVars>>

\* normalizeDate applied to its own result: the first and the second result.
ReapplyNormalizeDate ==
    /\ fnKind = "date" /\ fnPc = "done"
    /\ fnOut' = <<fnOut, normalizeDate(fnOut)>>
    /\ fnPc' = "again"
    /\ UNCHANGED <<fnKind, fnIn, appVars, chartVars, bookVars, sqlVars>>

\* The header line and one data line of one column, before the record is
\* accepted or dropped: the property set says which field the column fed.
ApplyHeaderMapping ==
    /\ fnKind = "header" /\ fnPc = "ready"
    /\ fnOut' = BuildTransaction(Headers(fnIn), parseCSVLine("5"))
    /\ fnPc' = "done"
    /\ UNCHANGED <<fnKind, fnIn, appVars, chartVars, bookVars, sqlVars>>

\* The records of parseCSV and the payload handleFileSelect builds from them.
WithPayload(parsedTransactions) ==
    [parsed |-> parsedTransactions,
     rows |-> TransactionsToInsert(parsedTransactions, BookId, UserId)]

ApplyParseCSV ==
    /\ fnKind = "file" /\ fnPc = "ready"
    /\ fnOut' = WithPayload(parseCSV(fnIn))
    /\ fnPc' = "done"
    /\ UNCHANGED <<fnKind, fnIn, appVars, chartVars, bookVars, sqlVars>>

\* The file of the input, and the same file with its columns permuted.
PermutedTexts(in) ==
    <<CsvText(in.headers, in.rows),
      CsvText(Permute(in.headers, in.perm),
              [r \in 1..Len(in.rows) |-> Permute(in.rows[r], in.perm)])>>

\* parseCSV of a file and of the same file with its columns permuted.
ApplyParseCSVPermuted ==
    /\ fnKind = "columns" /\ fnPc = "ready"
    /\ fnOut' = [i \in 1..2 |-> parseCSV(PermutedTexts(fnIn)[i])]
    /\ fnPc' = "done"
    /\ UNCHANGED <<fnKind, fnIn, appVars, chartVars, bookVars, sqlVars>>

PureNext ==
    \/ ApplyParseCSVLine
    \/ ApplyParseNumber
    \/ ApplyNormalizeDate
    \/ ReapplyNormalizeDate
    \/ ApplyHeaderMapping
    \/ ApplyParseCSV
    \/ ApplyParseCSVPermuted

PureSpec == PureInit /\ [][PureNext]_vars

-----------------------------------------------------------------------------
(* Calendar dates and the date-fns functions ChartSection calls.  A date   *)
(* is a local calendar day [year, month, day]: every use of currentDate    *)
(* goes through startOf... or endOf..., which drop the time of day.        *)

Date(y, m, d) == [year |-> y, month |-> m, day |-> d]

\* t.date.split('-').map(Number) and new Date(year, month - 1, day), for the
\* YYYY-MM-DD strings a DATE column returns.
LocalDate(s) ==
    Date(DigitsValue(SubSeq(s, 1, 4)), DigitsValue(SubSeq(s, 6, 7)),
         DigitsValue(SubSeq(s, 9, 10)))

RECURSIVE DaysBeforeMonth(_, _)
DaysBeforeMonth(y, m) ==
    IF m <= 1 THEN 0 ELSE DaysBeforeMonth(y, m - 1) + DaysInMonth(y, m - 1)

DaysBeforeYear(y) ==
    365 * (y - 1) + ((y - 1) \div 4) - ((y - 1) \div 100) + ((y - 1) \div 400)

\* Days since 31 December of the year 0: getTime() up to a constant and the
\* unit.
DayNumber(date) ==
    DaysBeforeYear(date.year) + DaysBeforeMonth(date.year, date.month) + date.day

\* Date.prototype.getDay: 0 is Sunday.
getDay(date) == DayNumber(date) % 7

NextDay(date) ==
    IF date.day < DaysInMonth(date.year, date.month)
    THEN Date(date.year, date.month, date.day + 1)
    ELSE IF date.month < 12 THEN Date(date.year, date.month + 1, 1)
         ELSE Date(date.year + 1, 1, 1)

PrevDay(date) ==
    IF date.day > 1 THEN Date(date.year, date.month, date.day - 1)
    ELSE IF date.month > 1
         THEN Date(date.year, date.month - 1, DaysInMonth(date.year, date.month - 1))
         ELSE Date(date.year - 1, 12, 31)

\* addDays: setDate(getDate() + amount)
RECURSIVE addDays(_, _)
addDays(date, amount) ==
    IF amount = 0 THEN date
    ELSE IF amount > 0 THEN addDays(NextDay(date), amount - 1)
         ELSE addDays(PrevDay(date), amount + 1)

addWeeks(date, amount) == addDays(date, 7 * amount)

\* Faulty variant: a day the target month lacks runs over into the month after
\* it, as Date.prototype.setMonth does.
addMonths_Overflow(date, amount) ==
    LET total == date.year * 12 + (date.month - 1) + amount
        y == total \div 12
        m == (total % 12) + 1
        last == DaysInMonth(y, m)
    IN  IF date.day <= last THEN Date(y, m, date.day)
        ELSE Date((total + 1) \div 12, ((total + 1) % 12) + 1, date.day - last)

\* addMonths: the day of the month is kept when the target month has it, and
\* is the last day of the target month otherwise.
addMonths(date, amount) ==
    LET total == date.year * 12 + (date.month - 1) + amount
        y == total \div 12
        m == (total % 12) + 1
        last == DaysInMonth(y, m)
    IN  Date(y, m, IF date.day > last THEN last ELSE date.day)

addYears(date, amount) == addMonths(date, 12 * amount)

subWeeks(date, amount) == addWeeks(date, 0 - amount)

\* Faulty variant: a month is taken as thirty days.
subMonths_ThirtyDays(date, amount) == addDays(date, 0 - 30 * amount)

subMonths(date, amount) == addMonths(date, 0 - amount)
subYears(date, amount) == addYears(date, 0 - amount)

\* startOfWeek / endOfWeek with { weekStartsOn: 0 }
startOfWeek(date) == addDays(date, 0 - getDay(date))
endOfWeek(date) == addDays(date, 6 - getDay(date))

startOfMonth(date) == Date(date.year, date.month, 1)
endOfMonth(date) == Date(date.year, date.month, DaysInMonth(date.year, date.month))
startOfYear(date) == Date(date.year, 1, 1)
endOfYear(date) == Date(date.year, 12, 31)

MonthNames == <<"Jan", "Feb", "Mar", "Apr", "May", "Jun",
                "Jul", "Aug", "Sep", "Oct", "Nov", "Dec">>

DigitChar(n) == Char("0123456789", n + 1)

\* A year as yyyy prints it: four digits at least.
YearString(y) ==
    (IF y >= 1000 THEN DigitChar((y \div 1000) % 10) ELSE "0")
        \o DigitChar((y \div 100) % 10) \o DigitChar((y \div 10) % 10) \o DigitChar(y % 10)

\* format(date, "MMM yyyy")
FormatMonth(date) == MonthNames[date.month] \o " " \o YearString(date.year)

\* parseISO(str).getTime(): a string with more than two parts around "T" or
\* " " is no ISO date, and the result is an Invalid Date, whose time is NaN
\* (here <<>>); a YYYY-MM-DD string gives its day.
parseISO(str) ==
    LET parts == {i \in 1..Len(str) : Char(str, i) \in {"T", " "}}
    IN  IF Cardinality(parts) > 1 THEN <<>>
        ELSE IF ValidDate(str) THEN <<DayNumber(LocalDate(str))>>
             ELSE <<>>

-----------------------------------------------------------------------------
(* JavaScript objects used as maps, and Array.prototype.sort.              *)

\* An object with string keys: its own properties [name, value] in the order
\* of their creation.
EmptyRecord == <<>>

HasKey(obj, key) == \E i \in 1..Len(obj) : obj[i].name = key

\* obj[key] || 0, for number values
GetOrZero(obj, key) ==
    IF HasKey(obj, key)
    THEN LET v == obj[CHOOSE i \in 1..Len(obj) : obj[i].name = key].value
         IN  IF Truthy(v) THEN v ELSE Zero
    ELSE Zero

\* obj[key] = value
Put(obj, key, value) ==
    IF HasKey(obj, key)
    THEN [i \in 1..Len(obj) |->
             IF obj[i].name = key THEN [name |-> key, value |-> value] ELSE obj[i]]
    ELSE Append(obj, [name |-> key, value |-> value])

\* A canonical numeric string of an array index (at most 4294967294): such
\* keys are enumerated first, in ascending numeric order.  A key is read as
\* its last five digits and the digits before them.
LowDigits(key) == DigitsValue(SubSeq(key, IF Len(key) > 5 THEN Len(key) - 4 ELSE 1, Len(key)))
HighDigits(key) == IF Len(key) > 5 THEN DigitsValue(SubSeq(key, 1, Len(key) - 5)) ELSE 0

MaxArrayIndexHigh == 42949
MaxArrayIndexLow == 67294

IsArrayIndex(key) ==
    /\ key # "" /\ Len(key) <= 10 /\ AllDigits(key)
    /\ (key = "0" \/ Char(key, 1) # "0")
    /\ \/ HighDigits(key) < MaxArrayIndexHigh
       \/ HighDigits(key) = MaxArrayIndexHigh /\ LowDigits(key) <= MaxArrayIndexLow

\* The positions of seq in ascending order of their keys, positions of equal
\* keys in their order in seq (a stable sort).
RECURSIVE StableOrder(_, _)
StableOrder(keys, left) ==
    IF left = {} THEN <<>>
    ELSE LET i == CHOOSE j \in left :
                    \A h \in left : keys[j] < keys[h] \/ (keys[j] = keys[h] /\ j <= h)
         IN  <<i>> \o StableOrder(keys, left \ {i})

SortByKeys(seq, keys) ==
    LET order == StableOrder(keys, 1..Len(seq))
    IN  [i \in 1..Len(seq) |-> seq[order[i]]]

\* Object.entries(obj): array-index keys in ascending numeric order, then the
\* other keys in the order of their creation.
ObjectEntries(obj) ==
    LET low == [i \in 1..Len(obj) |->
                   IF IsArrayIndex(obj[i].name) THEN LowDigits(obj[i].name) ELSE 0]
        byLow == SortByKeys(obj, low)
        high == [i \in 1..Len(byLow) |->
                    IF IsArrayIndex(byLow[i].name) THEN HighDigits(byLow[i].name)
                    ELSE MaxArrayIndexHigh + 1]
    IN  SortByKeys(byLow, high)

\* array.slice(0, n)
SliceTo(seq, n) == SubSeq(seq, 1, IF Len(seq) < n THEN Len(seq) ELSE n)

-----------------------------------------------------------------------------
(* Amounts as the store returns them: numbers of two decimals, or null.    *)

\* n in hundredths.
Cents(n) == IF n.k # "fin" THEN 0 ELSE n.m * Pow10(n.x + 2)

FromCents(c) == Normalize(c, 0 - 2)

\* a + b; sums of amounts of two decimals are taken as exact.
Plus(a, b) == FromCents(Cents(a) + Cents(b))

\* n > 0 (null > 0 is false)
IsPositive(n) == n.k \in {"fin", "inf"} /\ n.m > 0

\* Number(value.toFixed(2))
ToFixed2(n) == FromCents(Cents(n))

-----------------------------------------------------------------------------
(* ChartSection (part_002), and the earlier ChartSection (part_001).       *)

\* lines 27-36 and 43-52: the most recent transaction date.
MostRecentDate(rows) ==
    LET i == CHOOSE j \in 1..Len(rows) :
                 \A h \in 1..Len(rows) :
                     DayNumber(LocalDate(rows[j].date)) >= DayNumber(LocalDate(rows[h].date))
    IN  LocalDate(rows[i].date)

\* lines 54-71
dateRange ==
    IF timePeriod = "weekly"
    THEN [start |-> startOfWeek(currentDate), end |-> endOfWeek(currentDate)]
    ELSE IF timePeriod = "monthly"
         THEN [start |-> startOfMonth(currentDate), end |-> endOfMonth(currentDate)]
         ELSE [start |-> startOfYear(currentDate), end |-> endOfYear(currentDate)]

\* Faulty variant: the last day of the range is left out.
InRange_ExclusiveEnd(t, range) ==
    LET transactionDate == DayNumber(LocalDate(t.date))
    IN  /\ transactionDate >= DayNumber(range.start)
        /\ transactionDate < DayNumber(range.end)

\* The filter of lines 74-82: from the start of the first day of the range to
\* the end of its last day.
InRange(t, range) ==
    LET transactionDate == DayNumber(LocalDate(t.date))
    IN  /\ transactionDate >= DayNumber(range.start)
        /\ transactionDate <= DayNumber(range.end)

RECURSIVE FilterInRange(_, _)
FilterInRange(rows, range) ==
    IF Len(rows) = 0 THEN <<>>
    ELSE IF InRange(Head(rows), range)
         THEN <<Head(rows)>> \o FilterInRange(Tail(rows), range)
         ELSE FilterInRange(Tail(rows), range)

\* lines 73-85
filteredTransactions == FilterInRange(transactions, dateRange)

\* Faulty variant: every transaction is grouped, whatever its expense.
RECURSIVE GroupExpenses_AnyExpense(_, _)
GroupExpenses_AnyExpense(rows, grouped) ==
    IF Len(rows) = 0 THEN grouped
    ELSE LET t == Head(rows)
         IN  GroupExpenses_AnyExpense(Tail(rows),
                 Put(grouped, t.category, Plus(GetOrZero(grouped, t.category), t.expense)))

\* lines 117-122: grouped, after the forEach.
RECURSIVE GroupExpenses(_, _)
GroupExpenses(rows, grouped) ==
    IF Len(rows) = 0 THEN grouped
    ELSE LET t == Head(rows)
         IN  GroupExpenses(Tail(rows),
                 IF IsPositive(t.expense)
                 THEN Put(grouped, t.category, Plus(GetOrZero(grouped, t.category), t.expense))
                 ELSE grouped)

\* lines 123-128: the entries with their values rounded, sorted by
\* b.value - a.value.
SortedEntries(grouped) ==
    LET entries == ObjectEntries(grouped)
        rounded == [i \in 1..Len(entries) |->
                       [name |-> entries[i].name, value |-> ToFixed2(entries[i].value)]]
    IN  SortByKeys(rounded, [i \in 1..Len(rounded) |-> 0 - Cents(rounded[i].value)])

\* lines 116-129
categoryData == SortedEntries(GroupExpenses(filteredTransactions, EmptyRecord))

\* lines 112-113 (part_001, lines 21-22):
\* reduce((sum, t) => sum + (t.income || 0), 0)
RECURSIVE SumField(_, _, _)
SumField(rows, field, sum) ==
    IF Len(rows) = 0 THEN sum
    ELSE SumField(Tail(rows), field, Plus(sum, NumberOrZero(Head(rows), field)))

totalIncome == SumField(filteredTransactions, "income", Zero)

totalExpense == SumField(filteredTransactions, "expense", Zero)

\* a - b, exact like Plus
Minus(a, b) == FromCents(Cents(a) - Cents(b))

\* line 114
netBalance == Minus(totalIncome, totalExpense)

\* line 250, in the "category" view (the drill-down into subcategories is
\* left out of the model).
currentData == categoryData

BarChartSize == 10

\* line 410
barChartData == SliceTo(currentData, BarChartSize)

\* lines 157-167: monthlyExpenses, after the forEach: per month key, the
\* expenses grouped by category.
RECURSIVE GroupByMonth(_, _)
GroupByMonth(rows, monthlyExpenses) ==
    IF Len(rows) = 0 THEN monthlyExpenses
    ELSE LET t == Head(rows)
             monthKey == FormatMonth(LocalDate(t.date))
             categories == IF HasKey(monthlyExpenses, monthKey)
                           THEN monthlyExpenses[CHOOSE i \in 1..Len(monthlyExpenses) :
                                                    monthlyExpenses[i].name = monthKey].value
                           ELSE EmptyRecord
         IN  GroupByMonth(Tail(rows),
                 IF IsPositive(t.expense)
                 THEN Put(monthlyExpenses, monthKey,
                          Put(categories, t.category,
                              Plus(GetOrZero(categories, t.category), t.expense)))
                 ELSE monthlyExpenses)

RECURSIVE SumValues(_)
SumValues(obj) ==
    IF Len(obj) = 0 THEN Zero ELSE Plus(Head(obj).value, SumValues(Tail(obj)))

\* lines 150-178.  The comparator is a.sortDate.getTime() - b.sortDate.getTime():
\* with an Invalid Date on either side it is NaN, which sort takes for 0.
monthlyData ==
    IF timePeriod # "monthly" THEN <<>>
    ELSE LET entries == ObjectEntries(GroupByMonth(transactions, EmptyRecord))
             buckets == [i \in 1..Len(entries) |->
                            [month |-> entries[i].name,
                             total |-> ToFixed2(SumValues(entries[i].value)),
                             categories |-> entries[i].value,
                             sortDate |-> parseISO(entries[i].name \o " 01")]]
             invalid == \E i \in 1..Len(buckets) : buckets[i].sortDate = <<>>
         IN  SortByKeys(buckets,
                 [i \in 1..Len(buckets) |-> IF invalid THEN 0 ELSE buckets[i].sortDate[1]])

\* part_001, lines 26-36: categoryData of the earlier ChartSection, an array
\* in the order the categories are first met.
RECURSIVE CategoryArray(_, _)
CategoryArray(rows, acc) ==
    IF Len(rows) = 0 THEN acc
    ELSE LET t == Head(rows)
         IN  CategoryArray(Tail(rows),
                 IF IsPositive(t.expense)
                 THEN Put(acc, t.category, Plus(GetOrZero(acc, t.category), t.expense))
                 ELSE acc)

TopExpensesSize == 5

\* part_001, line 52
topExpenses ==
    LET data == CategoryArray(transactions, <<>>)
    IN  SliceTo(SortByKeys(data, [i \in 1..Len(data) |-> 0 - Cents(data[i].value)]),
                TopExpensesSize)

-----------------------------------------------------------------------------
(* ChartSpec: ChartSection over a list of transactions, as Dashboard       *)
(* passes it (loaded in descending order of date).                         *)

Amount(cents) == FromCents(cents)

ChartRow(id, date, category, income, expense) ==
    [id |-> id, book_id |-> BookId, user_id |-> UserId, paid_from |-> Null,
     date |-> date, category |-> category, subcategory |-> Null,
     income |-> Amount(income), expense |-> Amount(expense),
     note |-> Null, labels |-> Null]

ChartPool ==
    << ChartRow(1, "2025-01-01", "Food", 0, 3000),
       ChartRow(2, "2024-12-31", "10", 0, 2000),
       ChartRow(3, "2024-03-31", "Food", 0, 2000),
       ChartRow(4, "2024-03-30", "food", 0, 3000),
       ChartRow(5, "2024-03-01", "7", 0, 2000),
       ChartRow(6, "2024-02-29", "Rent", 0, 10000),
       ChartRow(7, "2024-01-31", "Food", 5000, 0),
       ChartRow(8, "2023-12-31", "Rent", 0, 0 - 500) >>

\* Food 30, Food 20 and Rent 100 in one month.
ExampleRows ==
    << ChartRow(1, "2024-03-09", "Food", 0, 3000),
       ChartRow(2, "2024-03-05", "Food", 0, 2000),
       ChartRow(3, "2024-03-01", "Rent", 0, 10000) >>

\* More categories than either chart shows, some of equal expense.
ManyLabels == <<"Food", "Rent", "Fun", "Gas", "Gym", "Pets", "Gifts", "Tax", "Fees", "Books", "Misc">>

ManyRows ==
    [i \in 1..Len(ManyLabels) |->
        ChartRow(i, "2024-03-15", ManyLabels[i], 0, 100 * (((i * 3) % 7) + 1))]

RECURSIVE Pick(_, _, _)
Pick(seq, chosen, i) ==
    IF i > Len(seq) THEN <<>>
    ELSE IF i \in chosen THEN <<seq[i]>> \o Pick(seq, chosen, i + 1)
         ELSE Pick(seq, chosen, i + 1)

ChartLists ==
    {Pick(ChartPool, chosen, 1) :
        chosen \in {c \in SUBSET (1..Len(ChartPool)) :
                       Cardinality(c) >= 1 /\ Cardinality(c) <= MaxChartRows}}
        \cup {ExampleRows, ManyRows}

\* The lists a load brings to a mounted ChartSection: one row, or the example.
ReloadedLists == {rows \in ChartLists : Len(rows) = 1} \cup {ExampleRows}

TimePeriods == {"weekly", "monthly", "yearly"}

\* ChartSection is mounted over a loaded list (Dashboard.tsx line 184 renders
\* it for a list that is not empty): lines 24 and 27-36.
ChartInit ==
    /\ \E rows \in ChartLists :
        /\ transactions = rows
        /\ dbTransactions = rows
        /\ nextId = Len(rows) + 1
        /\ currentDate = MostRecentDate(rows)
    /\ timePeriod = "monthly"
    /\ navSteps = 0
    /\ uploadPc = "idle" /\ file = Null /\ transactionsToInsert = <<>>
    /\ isUploading = FALSE /\ uploadCompleteCalls = 0
    /\ editingTransaction = Null /\ formData = EmptyObject
    /\ savePc = "idle" /\ updateRequest = Null
    /\ loads = <<>> /\ toast = NoToast /\ updateCalls = 0 /\ requests = 0
    /\ FnIdle
    /\ BooksLoaded
    /\ SqlIdle

\* lines 258-278: the Weekly, Monthly and Yearly buttons.
setTimePeriod(p) ==
    /\ navSteps < MaxNavSteps
    /\ timePeriod' = p
    /\ navSteps' = navSteps + 1
    /\ UNCHANGED <<currentDate, appVars, fnVars, bookVars, sqlVars>>

\* lines 92-100
handlePrevious ==
    /\ navSteps < MaxNavSteps
    /\ currentDate' = IF timePeriod = "weekly" THEN subWeeks(currentDate, 1)
                      ELSE IF timePeriod = "monthly" THEN subMonths(currentDate, 1)
                      ELSE subYears(currentDate, 1)
    /\ navSteps' = navSteps + 1
    /\ UNCHANGED <<timePeriod, appVars, fnVars, bookVars, sqlVars>>

\* lines 102-110
handleNext ==
    /\ navSteps < MaxNavSteps
    /\ currentDate' = IF timePeriod = "weekly" THEN addWeeks(currentDate, 1)
                      ELSE IF timePeriod = "monthly" THEN addMonths(currentDate, 1)
                      ELSE addYears(currentDate, 1)
    /\ navSteps' = navSteps + 1
    /\ UNCHANGED <<timePeriod, appVars, fnVars, bookVars, sqlVars>>

\* Dashboard.tsx line 108 and lines 42-52: the Dashboard passes another list
\* that is not empty (after a load: of an upload, an edit, a delete or another
\* book).  ChartSection stays mounted and keeps its state; the effect runs
\* when transactions.length has changed.
setTransactions(rows) ==
    /\ navSteps < MaxNavSteps
    /\ rows # transactions
    /\ transactions' = rows
    /\ dbTransactions' = rows
    /\ nextId' = Len(rows) + 1
    /\ currentDate' = IF Len(rows) # Len(transactions) THEN MostRecentDate(rows)
                      ELSE currentDate
    /\ navSteps' = navSteps + 1
    /\ UNCHANGED <<timePeriod, uploadVars, tableVars, loads, toast, updateCalls, requests>>
    /\ UNCHANGED <<fnVars, bookVars, sqlVars>>

ChartNext ==
    \/ \E p \in TimePeriods : setTimePeriod(p)
    \/ handlePrevious
    \/ handleNext
    \/ \E rows \in ReloadedLists : setTransactions(rows)

ChartSpec == ChartInit /\ [][ChartNext]_vars

-----------------------------------------------------------------------------
(* StoreSpec: the tables books and transactions behind the API, with their *)
(* foreign key and their row-level security policies, asked by two         *)
(* authenticated users.  A request that fails changes nothing.             *)

Users == {"user1", "user2"}

\* uuid_generate_v4(): an id not handed out before.
BookIdOf(n) == "book" \o DigitChar(n)

BookIds == {BookIdOf(n) : n \in 1..MaxBooks}

StoreRow(id, book, owner, category) ==
    [ChartRow(id, "2024-03-01", category, 0, 1000) EXCEPT !.book_id = book, !.user_id = owner]

\* lines 36-50 and 53-67: every policy of both tables is auth.uid() = user_id.
OwnRow(uid, row) == uid = row.user_id

\* The rows a statement of uid sees (USING).
Visible(rows, uid) == SelectSeq(rows, LAMBDA r : OwnRow(uid, r))

\* Faulty variant: the transactions of a deleted book stay.
Cascade_None(rows, bookIds) == rows

\* line 17, ON DELETE CASCADE: the rows left when the books of bookIds go.  The
\* referential action is not subject to the policies.
Cascade(rows, bookIds) == SelectSeq(rows, LAMBDA r : r.book_id \notin bookIds)

Referenced(bookId, rows) == \E i \in 1..Len(rows) : rows[i].book_id = bookId

StoreInit ==
    /\ AppInit /\ FnIdle /\ ChartIdle /\ SqlIdle
    /\ dbBooks = <<>> /\ nextBookId = 1
    /\ books = <<>> /\ selectedBook = Null
    /\ booksPc = "idle" /\ createRequests = <<>> /\ deleteRequest = Null

storeIdle == <<uploadVars, tableVars, dashboardVars, toast, fnVars, chartVars,
               books, selectedBook, booksPc, createRequests, deleteRequest>>

\* One more request: by uid, answered with rows.
Asked(uid, rows) ==
    /\ requests < MaxStoreOps
    /\ requests' = requests + 1
    /\ authUid' = uid
    /\ sqlResponse' = rows
    /\ UNCHANGED storeIdle

\* select * from books / from transactions
SqlSelectBooks(uid) ==
    /\ Asked(uid, Visible(dbBooks, uid))
    /\ UNCHANGED <<dbBooks, nextBookId, dbTransactions, nextId>>

SqlSelectTransactions(uid) ==
    /\ Asked(uid, Visible(dbTransactions, uid))
    /\ UNCHANGED <<dbBooks, nextBookId, dbTransactions, nextId>>

\* insert into books: WITH CHECK (auth.uid() = user_id)
SqlInsertBook(uid, owner) ==
    /\ nextBookId <= MaxBooks
    /\ Asked(uid, <<>>)
    /\ IF OwnRow(uid, Book(BookIdOf(nextBookId), owner, "Home"))
       THEN /\ dbBooks' = Append(dbBooks, Book(BookIdOf(nextBookId), owner, "Home"))
            /\ nextBookId' = nextBookId + 1
       ELSE UNCHANGED <<dbBooks, nextBookId>>
    /\ UNCHANGED <<dbTransactions, nextId>>

\* update books set column = value where id = bookId.  The new row has to
\* pass the USING expression too (the policy has no WITH CHECK of its own).
SqlUpdateBook(uid, bookId, column, value) ==
    /\ Asked(uid, <<>>)
    /\ LET new == [i \in 1..Len(dbBooks) |->
                      IF dbBooks[i].id = bookId /\ OwnRow(uid, dbBooks[i])
                      THEN [dbBooks[i] EXCEPT ![column] = value]
                      ELSE dbBooks[i]]
       IN  IF \A i \in 1..Len(new) : new[i] # dbBooks[i] => OwnRow(uid, new[i])
           THEN dbBooks' = new
           ELSE UNCHANGED dbBooks
    /\ UNCHANGED <<nextBookId, dbTransactions, nextId>>

\* delete from books where id = bookId
SqlDeleteBook(uid, bookId) ==
    /\ Asked(uid, <<>>)
    /\ LET gone == {dbBooks[i].id : i \in {j \in 1..Len(dbBooks) :
                        dbBooks[j].id = bookId /\ OwnRow(uid, dbBooks[j])}}
       IN  /\ dbBooks' = SelectSeq(dbBooks, LAMBDA b : b.id \notin gone)
           /\ dbTransactions' = Cascade(dbTransactions, gone)
    /\ UNCHANGED <<nextBookId, nextId>>

\* insert into transactions: WITH CHECK (auth.uid() = user_id), and the
\* foreign key.
SqlInsertTransaction(uid, owner, bookId) ==
    /\ nextId <= MaxStoreRows
    /\ Asked(uid, <<>>)
    /\ IF OwnRow(uid, StoreRow(nextId, bookId, owner, "Food")) /\ References(bookId, dbBooks)
       THEN /\ dbTransactions' = Append(dbTransactions, StoreRow(nextId, bookId, owner, "Food"))
            /\ nextId' = nextId + 1
       ELSE UNCHANGED <<dbTransactions, nextId>>
    /\ UNCHANGED <<dbBooks, nextBookId>>

\* update transactions set column = value where id = id
SqlUpdateTransaction(uid, id, column, value) ==
    /\ Asked(uid, <<>>)
    /\ LET new == [i \in 1..Len(dbTransactions) |->
                      IF dbTransactions[i].id = id /\ OwnRow(uid, dbTransactions[i])
                      THEN [dbTransactions[i] EXCEPT ![column] = value]
                      ELSE dbTransactions[i]]
       IN  IF \A i \in 1..Len(new) :
                  new[i] # dbTransactions[i]
                      => OwnRow(uid, new[i]) /\ References(new[i].book_id, dbBooks)
           THEN dbTransactions' = new
           ELSE UNCHANGED dbTransactions
    /\ UNCHANGED <<dbBooks, nextBookId, nextId>>

\* delete from transactions where id = id
SqlDeleteTransaction(uid, id) ==
    /\ Asked(uid, <<>>)
    /\ dbTransactions' = SelectSeq(dbTransactions, LAMBDA r : ~(r.id = id /\ OwnRow(uid, r)))
    /\ UNCHANGED <<dbBooks, nextBookId, nextId>>

BookUpdates == {<<"name", "Trip">>} \cup {<<"user_id", u>> : u \in Users}

TransactionUpdates ==
    {<<"category", "Misc">>} \cup {<<"user_id", u>> : u \in Users}
        \cup {<<"book_id", b>> : b \in BookIds}

StoreNext ==
    \E uid \in Users :
        \/ SqlSelectBooks(uid)
        \/ SqlSelectTransactions(uid)
        \/ \E owner \in Users : SqlInsertBook(uid, owner)
        \/ \E b \in BookIds, c \in BookUpdates : SqlUpdateBook(uid, b, c[1], c[2])
        \/ \E b \in BookIds : SqlDeleteBook(uid, b)
        \/ \E owner \in Users, b \in BookIds : SqlInsertTransaction(uid, owner, b)
        \/ \E id \in 1..MaxStoreRows, c \in TransactionUpdates :
               SqlUpdateTransaction(uid, id, c[1], c[2])
        \/ \E id \in 1..MaxStoreRows : SqlDeleteTransaction(uid, id)

StoreSpec == StoreInit /\ [][StoreNext]_vars

-----------------------------------------------------------------------------
(* DashboardSpec: the Dashboard from its mount on, for a user who has a    *)
(* book with transactions: the books are loaded, books are created and     *)
(* selected, files are uploaded, rows are edited and deleted, one after    *)
(* the other.                                                              *)

RECURSIVE Reverse(_)
Reverse(seq) == IF Len(seq) = 0 THEN <<>> ELSE Append(Reverse(Tail(seq)), Head(seq))

\* The names typed into the "new book" dialog.
BookNames == {"Trip"}

\* The files picked here: one with records, one without, one that is no .csv.
DashboardFiles == {f \in AppFiles : f.name \in {"statement.csv", "blank.csv", "statement.txt"}}

\* The rows of statement.csv, uploaded to the book in an earlier session.
EarlierRows ==
    StoredRows(TransactionsToInsert(
        ParsedFiles["Date,Category,Income,Expense\n2024/3/5,Food,0,12.50\n3/9/2024,Refund,-5,abc"],
        BookId, UserId), 1)

\* lines 37-41 and 65-69: the session is known and loadBooks is under way.
DashboardInit ==
    /\ dbTransactions = EarlierRows /\ nextId = Len(dbTransactions) + 1
    /\ dbBooks = <<Book1>> /\ nextBookId = 2
    /\ books = <<>> /\ selectedBook = Null /\ booksPc = "loading"
    /\ createRequests = <<>> /\ deleteRequest = Null
    /\ uploadPc = "idle" /\ file = Null /\ transactionsToInsert = <<>>
    /\ isUploading = FALSE /\ uploadCompleteCalls = 0
    /\ editingTransaction = Null /\ formData = EmptyObject
    /\ savePc = "idle" /\ updateRequest = Null
    /\ transactions = <<>> /\ loads = <<>>
    /\ toast = NoToast /\ updateCalls = 0 /\ requests = 0
    /\ FnIdle /\ ChartIdle /\ SqlIdle

\* loadBooks, lines 79-97, from the store's answer on: the user's books, the
\* latest first; the first of them is selected, and the effect of lines 71-77
\* loads its transactions.
LoadBooksResolved ==
    /\ booksPc # "idle"
    /\ LET data == Reverse(Visible(dbBooks, UserId))
       IN  /\ books' = data
           /\ IF Len(data) > 0
              THEN /\ selectedBook' = Some(data[1])
                   /\ loads' = IF selectedBook = Some(data[1]) THEN loads
                               ELSE LoadRequested(data[1].id)
              ELSE UNCHANGED <<selectedBook, loads>>
    /\ booksPc' = "idle"
    /\ UNCHANGED <<dbBooks, nextBookId, createRequests, deleteRequest>>
    /\ UNCHANGED <<uploadVars, tableVars, storeVars, transactions, toast, requests>>
    /\ UNCHANGED <<fnVars, chartVars, sqlVars>>

\* loadBooks, lines 92-96: the request failed.
LoadBooksRejected ==
    /\ booksPc # "idle"
    /\ toast' = ErrorToast("Failed to load books")
    /\ booksPc' = "idle"
    /\ UNCHANGED <<dbBooks, nextBookId, books, selectedBook, createRequests, deleteRequest>>
    /\ UNCHANGED <<uploadVars, tableVars, storeVars, dashboardVars, requests>>
    /\ UNCHANGED <<fnVars, chartVars, sqlVars>>

\* BookSelector.handleCreate and Dashboard.handleCreateBook, lines 123-135:
\* the insert is sent.  The handler keeps the books it was rendered with.
handleCreateBook(name) ==
    /\ booksPc # "loading"
    /\ Trim(name) # ""
    /\ requests < MaxRequests
    /\ requests' = requests + 1
    /\ createRequests' = Append(createRequests, [name |-> name, books |-> books])
    /\ UNCHANGED <<dbBooks, nextBookId, books, selectedBook, booksPc, deleteRequest>>
    /\ UNCHANGED <<uploadVars, tableVars, storeVars, dashboardVars, toast>>
    /\ UNCHANGED <<fnVars, chartVars, sqlVars>>

\* handleCreateBook, lines 137-141: the book is stored and comes back; it is
\* listed first and selected, and the effect of lines 71-77 loads its
\* transactions.
CreateBookResolved(i) ==
    /\ LET data == Book(BookIdOf(nextBookId), UserId, createRequests[i].name)
       IN  /\ dbBooks' = Append(dbBooks, data)
           /\ books' = <<data>> \o createRequests[i].books
           /\ selectedBook' = Some(data)
           /\ loads' = LoadRequested(data.id)
    /\ nextBookId' = nextBookId + 1
    /\ toast' = SuccessToast("Book created successfully!", 0)
    /\ createRequests' = Remove(createRequests, i)
    /\ UNCHANGED <<booksPc, deleteRequest>>
    /\ UNCHANGED <<uploadVars, tableVars, storeVars, transactions, requests>>
    /\ UNCHANGED <<fnVars, chartVars, sqlVars>>

\* handleCreateBook, lines 142-144: the insert failed.
CreateBookRejected(i) ==
    /\ toast' = ErrorToast("Failed to create book")
    /\ createRequests' = Remove(createRequests, i)
    /\ UNCHANGED <<dbBooks, nextBookId, books, selectedBook, booksPc, deleteRequest>>
    /\ UNCHANGED <<uploadVars, tableVars, storeVars, dashboardVars, requests>>
    /\ UNCHANGED <<fnVars, chartVars, sqlVars>>

\* BookSelector, lines 87-90: another book of the list is selected, and the
\* effect of lines 71-77 loads its transactions.
onSelectBook(i) ==
    /\ booksPc # "loading"
    /\ selectedBook # Some(books[i])
    /\ requests < MaxRequests
    /\ requests' = requests + 1
    /\ selectedBook' = Some(books[i])
    /\ loads' = LoadRequested(books[i].id)
    /\ UNCHANGED <<dbBooks, nextBookId, books, booksPc, createRequests, deleteRequest>>
    /\ UNCHANGED <<uploadVars, tableVars, storeVars, transactions, toast>>
    /\ UNCHANGED <<fnVars, chartVars, sqlVars>>

\* TransactionsTable.handleDelete, lines 67-71: the user confirms and the
\* delete is sent.  The handler keeps the onUpdate it was rendered with.  (One
\* delete is in flight at a time.)
handleDelete(i) ==
    /\ selectedBook # Null
    /\ deleteRequest = Null
    /\ requests < MaxRequests
    /\ requests' = requests + 1
    /\ deleteRequest' = Some([id |-> transactions[i].id, bookId |-> selectedBook[1].id])
    /\ UNCHANGED <<dbBooks, nextBookId, books, selectedBook, booksPc, createRequests>>
    /\ UNCHANGED <<uploadVars, tableVars, storeVars, dashboardVars, toast>>
    /\ UNCHANGED <<fnVars, chartVars, sqlVars>>

\* handleDelete, lines 73-76: the row is deleted; onUpdate reloads the list.
DeleteResolved ==
    /\ deleteRequest # Null
    /\ dbTransactions' = SelectSeq(dbTransactions, LAMBDA r : r.id # deleteRequest[1].id)
    /\ toast' = SuccessToast("Transaction deleted", 0)
    /\ updateCalls' = updateCalls + 1
    /\ loads' = LoadRequested(deleteRequest[1].bookId)
    /\ deleteRequest' = Null
    /\ UNCHANGED <<dbBooks, nextBookId, books, selectedBook, booksPc, createRequests>>
    /\ UNCHANGED <<editingTransaction, formData, savePc, updateRequest>>
    /\ UNCHANGED <<uploadVars, nextId, transactions, requests>>
    /\ UNCHANGED <<fnVars, chartVars, sqlVars>>

\* handleDelete, lines 77-79: the delete failed.
DeleteRejected ==
    /\ deleteRequest # Null
    /\ toast' = ErrorToast("Failed to delete transaction")
    /\ deleteRequest' = Null
    /\ UNCHANGED <<dbBooks, nextBookId, books, selectedBook, booksPc, createRequests>>
    /\ UNCHANGED <<uploadVars, tableVars, storeVars, dashboardVars, requests>>
    /\ UNCHANGED <<fnVars, chartVars, sqlVars>>

\* No request is in flight.
Quiet ==
    /\ booksPc = "idle" /\ uploadPc = "idle" /\ savePc = "idle"
    /\ createRequests = <<>> /\ deleteRequest = Null /\ loads = <<>>

\* The user starts one thing at a time, when the page has settled, and the
\* edit dialog, which is modal, bars the rest of the page while it is open.
\* (Of the two amount fields of the form, which are handled alike, the
\* expense is the one edited here.)
DashboardNext ==
    \/ /\ Quiet
       /\ editingTransaction = Null
       /\ \/ \E f \in DashboardFiles : SelectFile(f)
          \/ \E name \in BookNames : handleCreateBook(name)
          \/ \E i \in 1..Len(books) : onSelectBook(i)
          \/ \E i \in 1..Len(transactions) : handleEdit(i)
          \/ \E i \in 1..Len(transactions) : handleDelete(i)
    \/ \E v \in CategoryInputs : ChangeCategory(v)
    \/ \E v \in ExpenseInputs : ChangeExpense(v)
    \/ CloseDialog
    \/ Quiet /\ handleSave
    \/ LoadBooksResolved
    \/ LoadBooksRejected
    \/ \E i \in 1..Len(createRequests) : CreateBookResolved(i)
    \/ \E i \in 1..Len(createRequests) : CreateBookRejected(i)
    \/ FileRead
    \/ FileReadFails
    \/ InsertResolved
    \/ InsertRejected
    \/ \E i \in 1..Len(loads) : LoadResolved(i)
    \/ \E i \in 1..Len(loads) : LoadRejected(i)
    \/ UpdateResolved
    \/ UpdateRejected
    \/ DeleteResolved
    \/ DeleteRejected

DashboardSpec == DashboardInit /\ [][DashboardNext]_vars

-----------------------------------------------------------------------------
(* RaceSpec: the Dashboard with its requests in flight together.  The user *)
(* does not wait for an answer before the next click, the answers come in  *)
(* any order, the session is refreshed, and the user deletes books from    *)
(* another device.  (The form of the edit dialog is saved as it was        *)
(* opened.)                                                                *)

\* lines 52-60 and 65-69: the listener is called with a session (a refreshed
\* token, say); setUser gets the session's user object, and the effect of
\* [user] calls loadBooks again.  The page stays up: isLoading is false since
\* the first loadBooks.  (One loadBooks is in flight at a time.)
onAuthStateChange ==
    /\ booksPc = "idle"
    /\ requests < MaxRequests
    /\ requests' = requests + 1
    /\ booksPc' = "reloading"
    /\ UNCHANGED <<dbBooks, nextBookId, books, selectedBook, createRequests, deleteRequest>>
    /\ UNCHANGED <<uploadVars, tableVars, storeVars, dashboardVars, toast>>
    /\ UNCHANGED <<fnVars, chartVars, sqlVars>>

\* The files picked here: one with a record, one without, one that is no .csv.
RaceFiles == {f \in AppFiles : f.name \in {"rent.csv", "blank.csv", "statement.txt"}}

RaceNext ==
    \/ onAuthStateChange
    \/ \E b \in BookIds : requests < MaxRequests /\ SqlDeleteBook(UserId, b)
    \/ LoadBooksResolved
    \/ LoadBooksRejected
    \/ \E name \in BookNames : handleCreateBook(name)
    \/ \E i \in 1..Len(createRequests) : CreateBookResolved(i)
    \/ \E i \in 1..Len(createRequests) : CreateBookRejected(i)
    \/ \E i \in 1..Len(books) : onSelectBook(i)
    \/ \E f \in RaceFiles : SelectFile(f)
    \/ FileRead
    \/ FileReadFails
    \/ InsertResolved
    \/ InsertRejected
    \/ \E i \in 1..Len(transactions) : handleEdit(i)
    \/ CloseDialog
    \/ handleSave
    \/ UpdateResolved
    \/ UpdateRejected
    \/ \E i \in 1..Len(transactions) : handleDelete(i)
    \/ DeleteResolved
    \/ DeleteRejected
    \/ \E i \in 1..Len(loads) : LoadResolved(i)
    \/ \E i \in 1..Len(loads) : LoadRejected(i)

RaceSpec == DashboardInit /\ [][RaceNext]_vars

\* An awaited promise settles: file.text() yields the text or throws, and the
\* insert is answered or fails.
RaceFairSpec ==
    /\ RaceSpec
    /\ WF_vars(FileRead \/ FileReadFails)
    /\ WF_vars(InsertResolved \/ InsertRejected)

-----------------------------------------------------------------------------
(* Properties of the parser and the normalizer, over PureSpec.             *)

Range(seq) == {seq[i] : i \in 1..Len(seq)}

\* The pieces of s between the characters of seps.
PiecesBetween(s, seps) ==
    LET at == {i \in 1..Len(s) : Char(s, i) \in seps}
        n == Cardinality(at)
        Cut(k) == IF k = 0 THEN 0
                  ELSE IF k = n + 1 THEN Len(s) + 1
                       ELSE CHOOSE p \in at : Cardinality({q \in at : q < p}) = k - 1
    IN  [k \in 1..(n + 1) |-> SubSeq(s, Cut(k - 1) + 1, Cut(k) - 1)]

\* s without the characters of seps.
Without(s, seps) == Join(PiecesBetween(s, seps), "")

(* ---- C1 ---- *)

C1_Text == "Date,Category,Income,Expense\n2024/3/5,Food,0,12.50"

C1_Applied == fnKind = "file" /\ fnPc = "done" /\ fnIn = C1_Text

\* C1: parseCSV of the file with header line "Date,Category,Income,Expense"
\* and the one data line "2024/3/5,Food,0,12.50" returns exactly one record:
\* date "2024-03-05", category "Food", income 0, expense 12.5.
C1_Example ==
    C1_Applied =>
        fnOut.parsed = <<[date |-> "2024-03-05",
                          category |-> "Food",
                          income |-> Zero,
                          expense |-> [k |-> "fin", m |-> 125, x |-> 0 - 1]]>>

C1_Witness == C1_Applied /\ Len(fnOut.parsed) = 1

(* ---- C2 ---- *)

\* YYYY[-/]M[-/]D or M[-/]D[-/]YYYY, read off the pieces between the separators.
IsYMD(s) ==
    LET p == PiecesBetween(s, {"/", "-"})
    IN  /\ Len(p) = 3
        /\ \A i \in 1..3 : AllDigits(p[i])
        /\ Len(p[1]) = 4 /\ Len(p[2]) \in {1, 2} /\ Len(p[3]) \in {1, 2}

IsMDY(s) ==
    LET p == PiecesBetween(s, {"/", "-"})
    IN  /\ Len(p) = 3
        /\ \A i \in 1..3 : AllDigits(p[i])
        /\ Len(p[1]) \in {1, 2} /\ Len(p[2]) \in {1, 2} /\ Len(p[3]) = 4

\* YYYY-MM-DD
IsCanonicalDate(s) ==
    /\ Len(s) = 10
    /\ \A i \in {1, 2, 3, 4, 6, 7, 9, 10} : IsDigit(Char(s, i))
    /\ Char(s, 5) = "-" /\ Char(s, 8) = "-"

\* C2: normalizeDate is idempotent on every input that matches one of the two
\* patterns (surrounding blanks allowed): normalizing its result again gives
\* the same result; and a canonical YYYY-MM-DD string is returned unchanged.
C2_Idempotent ==
    /\ (fnKind = "date" /\ fnPc = "again" /\ (IsYMD(Trim(fnIn)) \/ IsMDY(Trim(fnIn))))
           => fnOut[2] = fnOut[1]
    /\ (fnKind = "date" /\ fnPc = "done" /\ IsCanonicalDate(fnIn))
           => fnOut = fnIn

C2_Witness ==
    /\ fnKind = "date" /\ fnPc = "again" /\ fnIn = "5/12/2024"
    /\ fnOut = <<"2024-05-12", "2024-05-12">>

(* ---- C3 ---- *)

\* out is y-MM-DD with the month number of m and the day number of d.
CanonicalOf(out, y, m, d) ==
    /\ IsCanonicalDate(out)
    /\ SubSeq(out, 1, 4) = y
    /\ DigitsValue(SubSeq(out, 6, 7)) = DigitsValue(m)
    /\ DigitsValue(SubSeq(out, 9, 10)) = DigitsValue(d)

\* C3: for an input that matches YYYY[-/]M[-/]D or M[-/]D[-/]YYYY,
\* normalizeDate returns year-month-day with the 4-digit year and the month
\* and the day zero-padded to 2 digits, the same numbers as in the input; a
\* non-empty input that matches neither is returned trimmed and otherwise
\* unchanged.  (normalizeDate has a result for every input: it never fails.)
C3_Format ==
    (fnKind = "date" /\ fnPc = "done") =>
        LET s == Trim(fnIn)
            p == PiecesBetween(s, {"/", "-"})
        IN  /\ IsYMD(s) => CanonicalOf(fnOut, p[1], p[2], p[3])
            /\ IsMDY(s) => CanonicalOf(fnOut, p[3], p[1], p[2])
            /\ (fnIn # "" /\ ~IsYMD(s) /\ ~IsMDY(s)) => fnOut = s

C3_Witness ==
    /\ fnKind = "date" /\ fnPc = "done" /\ fnIn = " 5/12/2024" /\ fnOut = "2024-05-12"

(* ---- C4 ---- *)

\* The lines parseCSV sees: those of the trimmed text; the first is the header.
LinesOf(text) == PiecesBetween(Trim(text), {"\n"})

\* The header names of the text, in lower case.
HeaderNames(text) ==
    LET names == parseCSVLine(LinesOf(text)[1])
    IN  [i \in 1..Len(names) |-> ToLowerCase(names[i])]

\* The data line is dropped for having fewer than 3 fields.
IsShort(line) == Len(parseCSVLine(line)) < 3

\* The last column whose (lower-case) header feeds the field; 0 when there is
\* none.
ColumnOf(names, field) ==
    LET cols == {i \in 1..Len(names) : HeaderField(names[i]) = field}
    IN  IF cols = {} THEN 0 ELSE CHOOSE i \in cols : \A j \in cols : j <= i

\* What the fields of a data line hold in the column; "" without the column.
ValueAtColumn(values, col) ==
    IF col = 0 \/ col > Len(values) THEN "" ELSE values[col]

\* The data line has 3 fields or more but no date or no category.
IsIncomplete(names, line) ==
    LET values == parseCSVLine(line)
    IN  /\ Len(values) >= 3
        /\ \/ ValueAtColumn(values, ColumnOf(names, "date")) = ""
           \/ ValueAtColumn(values, ColumnOf(names, "category")) = ""

NumDataLines(text) == Len(LinesOf(text)) - 1

NumShort(text) ==
    LET lines == LinesOf(text)
    IN  Cardinality({i \in 2..Len(lines) : IsShort(lines[i])})

NumIncomplete(text) ==
    LET lines == LinesOf(text)
        names == HeaderNames(text)
    IN  Cardinality({i \in 2..Len(lines) : IsIncomplete(names, lines[i])})

\* The records of one data line under the headers.
RecordsOfLine(headers, line) == ParseLinesFrom(headers, <<"", line>>, 2)

\* No data line of fewer than 3 fields gives a record.
ShortLinesGiveNone(text) ==
    LET lines == LinesOf(text)
        headers == Headers(lines[1])
    IN  \A i \in 2..Len(lines) :
            IsShort(lines[i]) => RecordsOfLine(headers, lines[i]) = <<>>

FileParsed == fnKind = "file" /\ fnPc = "done"

\* C4 as stated: no data line of fewer than 3 fields produces a record, and
\* data lines in = records returned + data lines of fewer than 3 fields.
C4_Balance ==
    FileParsed =>
        /\ ShortLinesGiveNone(fnIn)
        /\ NumDataLines(fnIn) = Len(fnOut.parsed) + NumShort(fnIn)

\* C4, amended: no data line of fewer than 3 fields produces a record, and
\* data lines in (the lines of the trimmed text after the header) = records
\* returned + data lines of fewer than 3 fields + data lines of 3 fields or
\* more whose date or category is missing or empty.
C4_BalanceWithIncomplete ==
    FileParsed =>
        /\ ShortLinesGiveNone(fnIn)
        /\ NumDataLines(fnIn) =
               Len(fnOut.parsed) + NumShort(fnIn) + NumIncomplete(fnIn)

C4_Witness ==
    /\ FileParsed
    /\ NumShort(fnIn) = 1 /\ NumIncomplete(fnIn) = 1 /\ Len(fnOut.parsed) = 0

(* ---- C5 ---- *)

\* The data lines (by their index among the lines) that are neither short nor
\* incomplete, in order: record k of the file comes from line k of these.
RecordLines(text) ==
    LET lines == LinesOf(text)
        names == HeaderNames(text)
        hits == {i \in 2..Len(lines) :
                    ~IsShort(lines[i]) /\ ~IsIncomplete(names, lines[i])}
    IN  [k \in 1..Cardinality(hits) |->
            CHOOSE i \in hits : Cardinality({j \in hits : j < i}) = k - 1]

\* The amount's value is empty or no number.
EmptyOrUnparsable(value) ==
    value = "" \/ ParseFloat(Without(value, {","})).k = "nan"

HasDateAndCategory(r, row) ==
    /\ "date" \in DOMAIN r /\ r["date"] # ""
    /\ "category" \in DOMAIN r /\ r["category"] # ""
    /\ row.date = r["date"] /\ row.category = r["category"]

\* C5 as stated: every record of parseCSV, and so every row of the bulk
\* insert, has a non-empty date and category, and its income and expense are
\* 0 when the column is absent, or the value is empty or unparsable.
C5_Defaults ==
    FileParsed =>
        LET lines == LinesOf(fnIn)
            names == HeaderNames(fnIn)
            from == RecordLines(fnIn)
        IN  /\ Len(fnOut.parsed) = Len(from)
            /\ Len(fnOut.rows) = Len(from)
            /\ \A k \in 1..Len(from) :
                   LET r == fnOut.parsed[k]
                       row == fnOut.rows[k]
                       values == parseCSVLine(lines[from[k]])
                   IN  /\ HasDateAndCategory(r, row)
                       /\ \A f \in {"income", "expense"} :
                              LET col == ColumnOf(names, f)
                              IN  (col = 0 \/ EmptyOrUnparsable(ValueAtColumn(values, col)))
                                  => /\ f \in DOMAIN r
                                     /\ r[f] = Zero
                                     /\ row[f] = Zero

\* C5, amended: every record of parseCSV and every row of the bulk insert has
\* a non-empty date and category.  When the amount's value is empty or
\* unparsable the record's amount is 0; when the file has no column for the
\* amount the record has no such property at all, and it is the row of the
\* bulk insert that gets 0.  In all three cases the row's amount is 0.
C5_DefaultsInPayload ==
    FileParsed =>
        LET lines == LinesOf(fnIn)
            names == HeaderNames(fnIn)
            from == RecordLines(fnIn)
        IN  /\ Len(fnOut.parsed) = Len(from)
            /\ Len(fnOut.rows) = Len(from)
            /\ \A k \in 1..Len(from) :
                   LET r == fnOut.parsed[k]
                       row == fnOut.rows[k]
                       values == parseCSVLine(lines[from[k]])
                   IN  /\ HasDateAndCategory(r, row)
                       /\ \A f \in {"income", "expense"} :
                              LET col == ColumnOf(names, f)
                              IN  /\ col = 0 => (f \notin DOMAIN r /\ row[f] = Zero)
                                  /\ (col # 0 /\ EmptyOrUnparsable(ValueAtColumn(values, col)))
                                     => /\ f \in DOMAIN r
                                        /\ r[f] = Zero
                                        /\ row[f] = Zero

C5_Witness ==
    /\ FileParsed
    /\ fnIn = "date,category,note\n2024-01-02,Food,-5,abc"
    /\ Len(fnOut.parsed) = 1
    /\ "income" \notin DOMAIN fnOut.parsed[1]
    /\ fnOut.rows[1].income = Zero

(* ---- C6 ---- *)

NonNegative(n) == ~IsNegative(n)

\* C6: every record parseCSV accepts (every row of a bulk insert) and every
\* update handleSave writes has income >= 0 and expense >= 0.
C6_NonNegativeAmounts ==
    /\ \A i \in 1..Len(transactionsToInsert) :
           /\ NonNegative(transactionsToInsert[i].income)
           /\ NonNegative(transactionsToInsert[i].expense)
    /\ updateRequest # Null =>
           /\ NonNegative(updateRequest[1].income)
           /\ NonNegative(updateRequest[1].expense)

(* ---- C7 ---- *)

CanonicalFields == <<"date", "category", "subcategory", "income", "expense",
                     "note", "paid_from">>

Contains(header, word) == Includes(ToLowerCase(header), word)

\* The containment the field asks of a header.
Asks(header, field) ==
    CASE field = "date" -> Contains(header, "date")
      [] field = "category" -> Contains(header, "category") /\ ~Contains(header, "sub")
      [] field = "subcategory" -> Contains(header, "sub")
      [] field = "income" -> Contains(header, "income")
      [] field = "expense" -> Contains(header, "expense")
      [] field = "note" -> Contains(header, "note") \/ Contains(header, "description")
      [] field = "paid_from" -> Contains(header, "paid")

HeaderMapped == fnKind = "header" /\ fnPc = "done"

\* C7 as stated: a column feeds a field whenever its header, in any letter
\* case, has the containment the field asks.
C7_Containment ==
    HeaderMapped =>
        \A i \in 1..Len(CanonicalFields) :
            Asks(fnIn, CanonicalFields[i]) => CanonicalFields[i] \in DOMAIN fnOut

\* C7, amended: matching is case-insensitive containment, and a column feeds
\* one field at most: the first field, in the order date, category,
\* subcategory, income, expense, note, paid_from, whose containment its header
\* has; it feeds no field when its header has none of them.
C7_FirstMatch ==
    HeaderMapped =>
        DOMAIN fnOut =
            {CanonicalFields[i] : i \in
                {j \in 1..Len(CanonicalFields) :
                    /\ Asks(fnIn, CanonicalFields[j])
                    /\ \A h \in 1..(j - 1) : ~Asks(fnIn, CanonicalFields[h])}}

C7_Witness ==
    HeaderMapped /\ fnIn = "Dateincome" /\ DOMAIN fnOut = {"date"}

(* ---- C8 ---- *)

ColumnsParsed == fnKind = "columns" /\ fnPc = "done"

\* No two columns of the header feed the same field.
NoSharedField(headers) ==
    LET fields == [i \in 1..Len(headers) |-> HeaderField(ToLowerCase(headers[i]))]
    IN  \A i, j \in 1..Len(headers) :
            i # j => (fields[i] = "" \/ fields[i] # fields[j])

\* C8 as stated: for every header row and every permutation of the columns,
\* parseCSV of the permuted file returns the same set of records.
C8_OrderFree ==
    ColumnsParsed => Range(fnOut[1]) = Range(fnOut[2])

\* C8, amended: when no two columns of the header feed the same field,
\* parseCSV of the file with its columns permuted (header and data lines
\* alike, each data line with one field per column) returns the same records,
\* in the same order.
C8_OrderFreeWhenDistinct ==
    (ColumnsParsed /\ NoSharedField(fnIn.headers)) => fnOut[1] = fnOut[2]

C8_Witness ==
    /\ ColumnsParsed
    /\ fnIn.headers = <<"Date", "Category", "Income">>
    /\ fnIn.perm = <<3, 1, 2>>
    /\ Len(fnOut[2]) = 2

(* ---- C9 ---- *)

\* A decimal numeral: an optional sign, digits with an optional fraction (a
\* digit at least), an optional exponent.  Its parts are the lengths of the
\* sign, of the integer digits, of the point with the fraction digits, and of
\* the exponent.
NumeralParts(s) ==
    {p \in (0..1) \X (0..Len(s)) \X (0..Len(s)) \X (0..Len(s)) :
        /\ p[1] + p[2] + p[3] + p[4] = Len(s)
        /\ p[1] = 1 => Char(s, 1) \in {"+", "-"}
        /\ AllDigits(SubSeq(s, p[1] + 1, p[1] + p[2]))
        /\ p[3] > 0 => /\ Char(s, p[1] + p[2] + 1) = "."
                       /\ AllDigits(SubSeq(s, p[1] + p[2] + 2, p[1] + p[2] + p[3]))
        /\ p[2] + p[3] > (IF p[3] > 0 THEN 1 ELSE 0)
        /\ p[4] > 0 =>
               LET e == p[1] + p[2] + p[3] + 1
                   signed == p[4] > 1 /\ Char(s, e + 1) \in {"+", "-"}
                   first == IF signed THEN e + 2 ELSE e + 1
               IN  /\ Char(s, e) \in {"e", "E"}
                   /\ first <= Len(s)
                   /\ AllDigits(SubSeq(s, first, Len(s)))}

IsNumeral(s) == NumeralParts(s) # {}

IsInfinityLiteral(s) == s \in {"Infinity", "+Infinity", "-Infinity"}

\* The number a numeral (or an Infinity literal) denotes, as a double.
NumeralValue(s) ==
    LET sign == IF Len(s) > 0 /\ Char(s, 1) = "-" THEN 0 - 1 ELSE 1
    IN  IF IsInfinityLiteral(s) THEN Infinity(sign)
        ELSE LET p == CHOOSE q \in NumeralParts(s) : TRUE
                 int == SubSeq(s, p[1] + 1, p[1] + p[2])
                 frac == IF p[3] > 0
                         THEN SubSeq(s, p[1] + p[2] + 2, p[1] + p[2] + p[3])
                         ELSE ""
                 e == p[1] + p[2] + p[3] + 1
                 eNeg == p[4] > 1 /\ Char(s, e + 1) = "-"
                 eDs == IF p[4] = 0 THEN ""
                        ELSE IF Char(s, e + 1) \in {"+", "-"}
                             THEN SubSeq(s, e + 2, Len(s))
                             ELSE SubSeq(s, e + 1, Len(s))
                 exp == IF eNeg THEN 0 - DigitsValue(eDs) ELSE DigitsValue(eDs)
             IN  MakeNumber(sign * DigitsValue(int \o frac), exp - Len(frac))

\* The longest prefix of s that is a numeral or an Infinity literal; "" when
\* no prefix is.
NumericPrefix(s) ==
    LET lens == {n \in 1..Len(s) :
                    IsNumeral(SubSeq(s, 1, n)) \/ IsInfinityLiteral(SubSeq(s, 1, n))}
    IN  IF lens = {} THEN ""
        ELSE SubSeq(s, 1, CHOOSE n \in lens : \A m \in lens : m <= n)

NumberParsed == fnKind = "number" /\ fnPc = "done"

QuotedAmountLine == "a,\"1,234.50\",b"

\* The quoted field "1,234.50" reaches parseNumber as one field and gives 1234.5.
QuotedAmount ==
    /\ parseCSVLine(QuotedAmountLine) = <<"a", "1,234.50", "b">>
    /\ fnIn = "1,234.50" => fnOut = [k |-> "fin", m |-> 12345, x |-> 0 - 1]

\* C9 as stated: parseNumber never fails; it returns the decimal value of the
\* string without its commas, and 0 when the string is empty or (without its
\* commas, blanks around it aside) is not a decimal numeral.
C9_ValueOrZero ==
    NumberParsed =>
        LET cleaned == Trim(Without(fnIn, {","}))
        IN  /\ fnOut.k \in {"fin", "inf"}
            /\ IF fnIn = "" \/ ~IsNumeral(cleaned)
               THEN fnOut = Zero
               ELSE fnOut = NumeralValue(cleaned)
            /\ QuotedAmount

\* C9, amended: parseNumber never fails and never returns NaN; it removes all
\* commas and returns the value of the longest leading decimal numeral (or
\* Infinity literal) of what is left, leading blanks skipped and whatever
\* follows the numeral ignored, and 0 when there is no such numeral.
C9_PrefixValueOrZero ==
    NumberParsed =>
        LET prefix == NumericPrefix(TrimStart(Without(fnIn, {","})))
        IN  /\ fnOut.k \in {"fin", "inf"}
            /\ IF prefix = "" THEN fnOut = Zero ELSE fnOut = NumeralValue(prefix)
            /\ QuotedAmount

C9_Witness ==
    NumberParsed /\ fnIn = "1,234.50" /\ fnOut = [k |-> "fin", m |-> 12345, x |-> 0 - 1]

(* ---- C10 ---- *)

\* The commas of the line that have an even number of quotes before them.
OutsideCommas(line) ==
    {i \in 1..Len(line) :
        /\ Char(line, i) = ","
        /\ Cardinality({j \in 1..(i - 1) : Char(line, j) = "\""}) % 2 = 0}

\* The stretch of the line that makes field k: between the outside commas.
Stretch(line, k) ==
    LET at == OutsideCommas(line)
        n == Cardinality(at)
        Cut(h) == IF h = 0 THEN 0
                  ELSE IF h = n + 1 THEN Len(line) + 1
                       ELSE CHOOSE p \in at : Cardinality({q \in at : q < p}) = h - 1
    IN  SubSeq(line, Cut(k - 1) + 1, Cut(k) - 1)

NoBlankAround(s) ==
    s = "" \/ (~IsWhiteSpace(Char(s, 1)) /\ ~IsWhiteSpace(Char(s, Len(s))))

LineSplit == fnKind = "line" /\ fnPc = "done"

\* C10: parseCSVLine splits a line at the commas outside quoted spans only
\* (each double quote toggles the state, which starts outside): it returns
\* 1 + the number of such commas fields, each the stretch between two of them
\* without its quotes and surrounding blanks; no field holds a double quote
\* and none starts or ends with white space.
C10_Fields ==
    LineSplit =>
        /\ Len(fnOut) = 1 + Cardinality(OutsideCommas(fnIn))
        /\ \A k \in 1..Len(fnOut) :
               /\ ~Includes(fnOut[k], "\"")
               /\ NoBlankAround(fnOut[k])
               /\ k <= 1 + Cardinality(OutsideCommas(fnIn))
                      => fnOut[k] = Trim(Without(Stretch(fnIn, k), {"\""}))

C10_Witness ==
    LineSplit /\ fnIn = "\",\",a" /\ fnOut = <<",", "a">>

-----------------------------------------------------------------------------
(* Properties of ChartSection, over ChartSpec.                             *)

DateNumber(date) == date.year * 10000 + date.month * 100 + date.day

\* The transactions of rows dated within the window.
InWindow(rows) ==
    {i \in 1..Len(rows) :
        /\ DateKey(rows[i].date) >= DateNumber(dateRange.start)
        /\ DateKey(rows[i].date) <= DateNumber(dateRange.end)}

RECURSIVE SumCents(_, _)
SumCents(rows, indices) ==
    IF indices = {} THEN 0
    ELSE LET i == CHOOSE j \in indices : TRUE
         IN  Cents(rows[i].expense) + SumCents(rows, indices \ {i})

\* The positive expenses of the transactions among indices that carry label.
Spent(rows, indices, label) ==
    {i \in indices : rows[i].category = label /\ Cents(rows[i].expense) > 0}

\* data has one entry per label with a positive expense among indices, whose
\* value is the sum of these expenses, and no other entry.
IsExpenseMap(data, rows, indices) ==
    /\ \A i \in 1..Len(rows) :
        LET label == rows[i].category
            spent == Spent(rows, indices, label)
            found == {e \in 1..Len(data) : data[e].name = label}
        IN  IF spent = {} THEN found = {}
            ELSE /\ Cardinality(found) = 1
                 /\ \A e \in found : Cents(data[e].value) = SumCents(rows, spent)
    /\ \A e \in 1..Len(data) : \E i \in indices : rows[i].category = data[e].name

MonthsOf(rows) == {FormatMonth(LocalDate(rows[i].date)) : i \in 1..Len(rows)}

\* Every transaction of month a is dated before every transaction of month b.
MonthBefore(rows, a, b) ==
    \A i, j \in 1..Len(rows) :
        (FormatMonth(LocalDate(rows[i].date)) = a /\ FormatMonth(LocalDate(rows[j].date)) = b)
            => DateKey(rows[i].date) < DateKey(rows[j].date)

\* C12: monthlyData has exactly one bucket per calendar month the transactions
\* are dated in, the earliest month first, for every currentDate and every
\* timePeriod.
C12_MonthlyBuckets ==
    /\ {monthlyData[i].month : i \in 1..Len(monthlyData)} = MonthsOf(transactions)
    /\ Len(monthlyData) = Cardinality(MonthsOf(transactions))
    /\ \A i, j \in 1..Len(monthlyData) :
        i < j => MonthBefore(transactions, monthlyData[i].month, monthlyData[j].month)

\* The labels with a positive expense among indices.
Groups(rows, indices) ==
    {rows[i].category : i \in {j \in indices : Cents(rows[j].expense) > 0}}

\* Where label is first met with a positive expense.
FirstSeen(rows, indices, label) ==
    CHOOSE i \in Spent(rows, indices, label) : \A j \in Spent(rows, indices, label) : i <= j

Smaller(a, b) == IF a < b THEN a ELSE b

TopSize(data, rows, indices, n) ==
    Len(data) = Smaller(n, Cardinality(Groups(rows, indices)))

Descending(data) ==
    \A i, j \in 1..Len(data) : i < j => Cents(data[i].value) >= Cents(data[j].value)

TiesInEncounterOrder(data, rows, indices) ==
    \A i, j \in 1..Len(data) :
        (i < j /\ Cents(data[i].value) = Cents(data[j].value))
            => FirstSeen(rows, indices, data[i].name) < FirstSeen(rows, indices, data[j].name)

\* C13: the top 5 categories and the first 10 bars are min(N, number of
\* groups) entries, in descending order of their sums, groups of equal sum in
\* the order their labels are first met in the list, for every list and every
\* label set.
C13_TopN ==
    /\ TopSize(topExpenses, transactions, 1..Len(transactions), TopExpensesSize)
    /\ Descending(topExpenses)
    /\ TiesInEncounterOrder(topExpenses, transactions, 1..Len(transactions))
    /\ TopSize(barChartData, transactions, InWindow(transactions), BarChartSize)
    /\ Descending(barChartData)
    /\ TiesInEncounterOrder(barChartData, transactions, InWindow(transactions))

\* The day of the week by Zeller's congruence: 0 is Saturday, 1 is Sunday.
Zeller(date) ==
    LET m == IF date.month < 3 THEN date.month + 12 ELSE date.month
        y == IF date.month < 3 THEN date.year - 1 ELSE date.year
    IN  (date.day + ((13 * (m + 1)) \div 5) + (y % 100) + ((y % 100) \div 4)
            + ((y \div 100) \div 4) + 5 * (y \div 100)) % 7

\* range is the Sunday-to-Saturday week, the calendar month or the calendar
\* year that holds date.
IsWindowOf(range, period, date) ==
    /\ DateNumber(range.start) <= DateNumber(date)
    /\ DateNumber(date) <= DateNumber(range.end)
    /\ period = "weekly" =>
        /\ Zeller(range.start) = 1 /\ Zeller(range.end) = 0
        /\ DayNumber(range.end) - DayNumber(range.start) = 6
    /\ period = "monthly" =>
        /\ range.start = Date(date.year, date.month, 1)
        /\ range.end.year = date.year /\ range.end.month = date.month
        /\ NextDay(range.end).day = 1
    /\ period = "yearly" =>
        /\ range.start = Date(date.year, 1, 1)
        /\ range.end = Date(date.year, 12, 31)

\* C14: the window is the Sunday-to-Saturday week, the calendar month or the
\* calendar year of currentDate, and the filter keeps exactly the transactions
\* dated from its first to its last day, both included, in their order.
C14_InclusiveWindow ==
    /\ IsWindowOf(dateRange, timePeriod, currentDate)
    /\ {filteredTransactions[i].id : i \in 1..Len(filteredTransactions)}
           = {transactions[i].id : i \in InWindow(transactions)}
    /\ Len(filteredTransactions) = Cardinality(InWindow(transactions))
    /\ \A i, j \in 1..Len(filteredTransactions) :
        i < j => \E a, b \in 1..Len(transactions) :
                    /\ a < b
                    /\ transactions[a] = filteredTransactions[i]
                    /\ transactions[b] = filteredTransactions[j]

\* A week whose first day has a transaction that is kept, while one of the day
\* before is dropped.
C14_Witness ==
    /\ timePeriod = "weekly"
    /\ \E i \in 1..Len(filteredTransactions) :
        LocalDate(filteredTransactions[i].date) = dateRange.start
    /\ \E i \in 1..Len(transactions) :
        /\ LocalDate(transactions[i].date) = PrevDay(dateRange.start)
        /\ \A j \in 1..Len(filteredTransactions) :
            filteredTransactions[j].id # transactions[i].id

MonthIndex(date) == date.year * 12 + date.month

\* From date to later is one unit of period.
OneUnit(period, date, later) ==
    /\ period = "weekly" => DayNumber(later) - DayNumber(date) = 7
    /\ period = "monthly" => MonthIndex(later) - MonthIndex(date) = 1
    /\ period = "yearly" => (later.year - date.year = 1 /\ later.month = date.month)

\* A click on an arrow: the reference date changes, the period and the list
\* do not.
Navigated ==
    /\ navSteps' = navSteps + 1
    /\ timePeriod' = timePeriod
    /\ transactions' = transactions
    /\ currentDate' # currentDate

\* C15: handlePrevious and handleNext move currentDate by one week, one
\* calendar month or one calendar year, and the new window is the period next
\* to the old one: it starts the day after the old window ends, or ends the
\* day before the old window starts.
C15_AdjacentWindow ==
    [][Navigated =>
        \/ /\ OneUnit(timePeriod, currentDate, currentDate')
           /\ dateRange'.start = NextDay(dateRange.end)
        \/ /\ OneUnit(timePeriod, currentDate', currentDate)
           /\ dateRange'.end = PrevDay(dateRange.start)]_vars

\* handlePrevious has moved the reference date from 31 March 2024 to
\* 29 February 2024.
C15_Witness ==
    /\ timePeriod = "monthly" /\ navSteps = 1
    /\ MostRecentDate(transactions) = Date(2024, 3, 31)
    /\ currentDate = Date(2024, 2, 29)

-----------------------------------------------------------------------------
(* Properties of the store, over StoreSpec.                                *)

Ids(rows) == {rows[i].id : i \in 1..Len(rows)}

\* Every transaction references a book of the table.
ReferentialIntegrity ==
    \A i \in 1..Len(dbTransactions) :
        \E j \in 1..Len(dbBooks) : dbBooks[j].id = dbTransactions[i].book_id

\* A step that removes books removes their transactions, all of them and no
\* other, and changes no other transaction.
BooksGoWithTheirTransactions ==
    LET gone == Ids(dbBooks) \ Ids(dbBooks')
    IN  gone # {} =>
            dbTransactions' = SelectSeq(dbTransactions, LAMBDA r : r.book_id \notin gone)

\* C16: after any sequence of inserts, updates and deletes of books and
\* transactions, every transaction references an existing book, and deleting
\* a book removes exactly the transactions of that book.
C16_Cascade == []ReferentialIntegrity /\ [][BooksGoWithTheirTransactions]_vars

\* Two books and a transaction in each were inserted; the one further request
\* has deleted a book, and the transaction of the other book is left.
C16_Witness ==
    /\ nextBookId = 3 /\ nextId = 3 /\ requests = 5
    /\ Len(dbBooks) = 1 /\ Len(dbTransactions) = 1
    /\ dbTransactions[1].book_id = dbBooks[1].id

\* The rows of before that are not in after as they were.
Touched(before, after) ==
    {before[i] : i \in {j \in 1..Len(before) :
        \A h \in 1..Len(after) : after[h] # before[j]}}

\* C17: a request reads, updates and deletes only rows whose user_id is the
\* caller's, inserts only rows whose user_id is the caller's, and what it
\* reads does not depend on the rows of other users.
C17_Ownership ==
    [][/\ \A r \in Touched(dbBooks, dbBooks') \cup Touched(dbTransactions, dbTransactions') :
              r.user_id = authUid'
       /\ \A r \in Touched(dbBooks', dbBooks) \cup Touched(dbTransactions', dbTransactions) :
              r.user_id = authUid'
       /\ \A i \in 1..Len(sqlResponse') : sqlResponse'[i].user_id = authUid'
       /\ sqlResponse' \in {<<>>, Visible(Visible(dbBooks, authUid'), authUid'),
                            Visible(Visible(dbTransactions, authUid'), authUid')}]_vars

-----------------------------------------------------------------------------
(* Properties of the Dashboard, over DashboardSpec.                        *)

\* The columns handleSave does not send.
KeptColumns == {"id", "book_id", "user_id", "paid_from", "date"}

C19_UploadWrites ==
    [][/\ \A f \in AppFiles :
            (SelectFile(f) /\ ~EndsWith(f.name, ".csv")) =>
                /\ toast'.type = "error"
                /\ uploadPc' = "idle" /\ transactionsToInsert' = <<>>
                /\ dbTransactions' = dbTransactions
                /\ uploadCompleteCalls' = uploadCompleteCalls
       /\ (FileRead /\ Len(ParsedFiles[file[1].text]) = 0) =>
            /\ toast'.type = "error"
            /\ uploadPc' = "idle" /\ transactionsToInsert' = <<>>
            /\ dbTransactions' = dbTransactions
            /\ uploadCompleteCalls' = uploadCompleteCalls
       /\ (FileRead /\ Len(ParsedFiles[file[1].text]) > 0) =>
            LET accepted == ParsedFiles[file[1].text]
            IN  /\ uploadPc' = "inserting"
                /\ dbTransactions' = dbTransactions
                /\ Len(transactionsToInsert') = Len(accepted)
                /\ \A i \in 1..Len(accepted) :
                    /\ transactionsToInsert'[i].book_id = selectedBook[1].id
                    /\ transactionsToInsert'[i].user_id = UserId
                    /\ transactionsToInsert'[i].date = accepted[i]["date"]
                    /\ transactionsToInsert'[i].category = accepted[i]["category"]
       /\ Len(dbTransactions') > Len(dbTransactions) =>
            /\ uploadPc = "inserting" /\ uploadPc' = "idle"
            /\ transactionsToInsert = TransactionsToInsert(ParsedFiles[file[1].text],
                                                           selectedBook[1].id, UserId)
            /\ transactionsToInsert' = <<>> /\ file' = Null
            /\ Len(dbTransactions') = Len(dbTransactions) + Len(ParsedFiles[file[1].text])
            /\ \A i \in 1..Len(transactionsToInsert) :
                LET stored == dbTransactions'[Len(dbTransactions) + i]
                IN  /\ stored.book_id = transactionsToInsert[i].book_id
                    /\ stored.user_id = transactionsToInsert[i].user_id
                    /\ stored.date = transactionsToInsert[i].date
                    /\ stored.category = transactionsToInsert[i].category
            /\ SubSeq(dbTransactions', 1, Len(dbTransactions)) = dbTransactions
            /\ toast' = SuccessToast("Successfully uploaded", Len(ParsedFiles[file[1].text]))
            /\ uploadCompleteCalls' = uploadCompleteCalls + 1]_vars

\* The two records of statement.csv have been inserted after the two of the
\* earlier session.
C19_Witness ==
    /\ toast = SuccessToast("Successfully uploaded", 2)
    /\ uploadCompleteCalls = 1
    /\ Len(dbTransactions) = 4
    /\ uploadPc = "idle"

\* A storage call fails.
StorageFailure ==
    \/ LoadBooksRejected
    \/ \E i \in 1..Len(loads) : LoadRejected(i)
    \/ \E i \in 1..Len(createRequests) : CreateBookRejected(i)
    \/ InsertRejected
    \/ UpdateRejected
    \/ DeleteRejected

\* No request is started.
NothingSent ==
    /\ Len(loads') <= Len(loads)
    /\ booksPc' = "idle" \/ booksPc' = booksPc
    /\ Len(createRequests') <= Len(createRequests)
    /\ deleteRequest' = Null \/ deleteRequest' = deleteRequest
    /\ uploadPc' = "idle" \/ uploadPc' = uploadPc
    /\ savePc' = "idle" \/ savePc' = savePc
    /\ dbTransactions' = dbTransactions /\ dbBooks' = dbBooks

\* C20: the failure of a storage call (loadBooks, loadTransactions,
\* handleCreateBook, the bulk insert, handleSave, handleDelete) ends in an
\* error toast and leaves books, selectedBook and transactions as they were;
\* the edit dialog stays as it was after a failed save, and nothing is sent
\* again.
C20_FailuresLeaveState ==
    [][StorageFailure =>
        /\ toast'.type = "error"
        /\ books' = books /\ selectedBook' = selectedBook /\ transactions' = transactions
        /\ UpdateRejected => (editingTransaction' = editingTransaction /\ formData' = formData)
        /\ NothingSent]_vars

\* A save has failed and the dialog is still open on the edited form.
C20_Witness ==
    /\ toast = ErrorToast("Failed to update transaction")
    /\ editingTransaction # Null
    /\ formData # editingTransaction[1]
    /\ savePc = "idle"

-----------------------------------------------------------------------------
(* Properties of the Dashboard under interleaved requests, over RaceSpec.  *)

\* rows is what the store holds for the book, the latest date first.
IsPayload(rows, bookId) ==
    /\ \A k \in 1..Len(rows) :
        /\ rows[k].book_id = bookId
        /\ \E j \in 1..Len(dbTransactions) : dbTransactions[j] = rows[k]
    /\ \A j \in 1..Len(dbTransactions) :
        dbTransactions[j].book_id = bookId =>
            Cardinality({k \in 1..Len(rows) : rows[k] = dbTransactions[j]}) = 1
    /\ \A k \in 1..Len(rows) - 1 : DateKey(rows[k].date) >= DateKey(rows[k + 1].date)

\* C21: no loadTransactions request is cancelled.  With several in flight,
\* the response of any of them may arrive next, and each response that
\* arrives replaces the transactions state by its payload, the rows of the
\* book it was sent for, whichever book is selected by then; nothing else
\* writes the transactions state.  So once all have arrived, the state is the
\* payload of the response that arrived last, whatever the order of the
\* requests.
C21_LastResponseWins ==
    /\ [](\A i \in 1..Len(loads) : ENABLED LoadResolved(i))
    /\ [][/\ \A i \in 1..Len(loads) :
              LoadResolved(i) =>
                /\ IsPayload(transactions', loads[i])
                /\ loads' = Remove(loads, i)
          /\ transactions' # transactions => \E i \in 1..Len(loads) : LoadResolved(i)]_vars

\* The book created last is selected, nothing is in flight, no load has
\* failed, and the transactions are those of the first book: its response,
\* asked for first, arrived last.
C21_Witness ==
    /\ Quiet
    /\ toast = SuccessToast("Book created successfully!", 0)
    /\ selectedBook # Null /\ selectedBook[1].id = BookIdOf(2)
    /\ Len(transactions) = 2
    /\ \A k \in 1..Len(transactions) : transactions[k].book_id = BookId

\* A mutation of the transactions succeeds / fails.
MutationSucceeds == InsertResolved \/ UpdateResolved \/ DeleteResolved

MutationFails == FileReadFails \/ InsertRejected \/ UpdateRejected \/ DeleteRejected

\* C22: every successful mutation of the transactions (the bulk insert of an
\* upload, the update of handleSave, the delete of handleDelete) is followed
\* by one loadTransactions request for the book selected in the Dashboard,
\* and a failed mutation is followed by none.
C22_ReloadSelectedBook ==
    [][/\ MutationSucceeds =>
            /\ selectedBook' # Null
            /\ loads' = Append(loads, selectedBook'[1].id)
       /\ MutationFails => loads' = loads]_vars

\* C23: whenever no storage request is in flight, the transactions state
\* holds only transactions of the selected book, and none when no book is
\* selected.
C23_TransactionsOfSelectedBook ==
    Quiet =>
        IF selectedBook = Null THEN transactions = <<>>
        ELSE \A k \in 1..Len(transactions) : transactions[k].book_id = selectedBook[1].id

\* The books handleCreateBook has stored: those the store holds besides the
\* one of the earlier session.
CreatedBooks == {dbBooks[j] : j \in {k \in 1..Len(dbBooks) : dbBooks[k].id # BookId}}

\* C24: whenever no request is in flight, every book whose creation succeeded
\* is in the books list of the Dashboard.
C24_NoCreatedBookLost ==
    Quiet => \A b \in CreatedBooks : \E k \in 1..Len(books) : books[k].id = b.id

\* C25: the selected book is null or one of the books of the list.
C25_SelectedBookListed ==
    selectedBook = Null \/ \E k \in 1..Len(books) : books[k] = selectedBook[1]

-----------------------------------------------------------------------------
(* Ownership of the stored rows, over StoreSpec.                           *)

\* C26: every stored transaction has the user_id of the book it references.
C26_TransactionOwnerIsBookOwner ==
    \A i \in 1..Len(dbTransactions), j \in 1..Len(dbBooks) :
        dbTransactions[i].book_id = dbBooks[j].id =>
            dbTransactions[i].user_id = dbBooks[j].user_id

-----------------------------------------------------------------------------
(* The upload card, over RaceFairSpec.                                     *)

\* A run of handleFileSelect has passed line 127 and has not ended.
UploadInProgress == uploadPc # "idle"

\* C27: at most one upload is in progress in the UploadSection.  isUploading
\* is true exactly while a run of handleFileSelect on an accepted .csv file
\* is under way; no file is taken while it is true; and every run, however
\* it ends, sets it to false again.
C27_OneUploadAtATime ==
    /\ [](isUploading <=> UploadInProgress)
    /\ [][/\ \A f \in AppFiles : SelectFile(f) =>
                /\ ~isUploading
                /\ isUploading' <=> EndsWith(f.name, ".csv")
          /\ (UploadInProgress /\ ~UploadInProgress') => ~isUploading'
          /\ (UploadInProgress /\ file' # file) => ~UploadInProgress']_vars
    /\ isUploading ~> ~isUploading

\* A run has ended in the catch block and isUploading is false again.
C27_Witness ==
    /\ ~isUploading
    /\ uploadPc = "idle"
    /\ toast = ErrorToast("Failed to upload CSV")

-----------------------------------------------------------------------------
(* Totals and navigation of the charts, over ChartSpec.                    *)

\* C28: the totals and the breakdown agree.  The values of the categoryData
\* groups add up to totalExpense of the filtered transactions (in the earlier
\* ChartSection, of all transactions), and netBalance is totalIncome less
\* totalExpense.
C28_TotalsAgree ==
    /\ SumValues(categoryData) = totalExpense
    /\ SumValues(CategoryArray(transactions, <<>>)) = SumField(transactions, "expense", Zero)
    /\ Cents(netBalance) = Cents(totalIncome) - Cents(totalExpense)

\* C29: when the transactions passed to ChartSection change to another list
\* that is not empty, currentDate becomes the most recent transaction date of
\* the new list, and the window shown then contains that date.
C29_WindowFollowsTransactions ==
    [][(transactions' # transactions /\ transactions' # <<>>) =>
        /\ currentDate' = MostRecentDate(transactions')
        /\ DayNumber(dateRange'.start) <= DayNumber(MostRecentDate(transactions'))
        /\ DayNumber(MostRecentDate(transactions')) <= DayNumber(dateRange'.end)]_vars

\* The reference date one period later and one period earlier, and the window
\* of a reference date.
Later(period, date) ==
    IF period = "weekly" THEN addWeeks(date, 1)
    ELSE IF period = "monthly" THEN addMonths(date, 1) ELSE addYears(date, 1)

Earlier(period, date) ==
    IF period = "weekly" THEN subWeeks(date, 1)
    ELSE IF period = "monthly" THEN subMonths(date, 1) ELSE subYears(date, 1)

WindowOf(period, date) ==
    IF period = "weekly" THEN [start |-> startOfWeek(date), end |-> endOfWeek(date)]
    ELSE IF period = "monthly" THEN [start |-> startOfMonth(date), end |-> endOfMonth(date)]
    ELSE [start |-> startOfYear(date), end |-> endOfYear(date)]

\* C30: navigation round-trips.  After handleNext, handlePrevious leads back
\* to the window it started from, and after handlePrevious, handleNext does,
\* for weeks, months and years; the filtered transactions are then the same
\* too.  (The reference date itself need not come back: 31 January, next,
\* previous is 29 January.)
C30_RoundTrip ==
    [][/\ dateRange' = WindowOf(timePeriod', currentDate')
       /\ handleNext =>
            /\ currentDate' = Later(timePeriod, currentDate)
            /\ WindowOf(timePeriod, Earlier(timePeriod, currentDate')) = dateRange
            /\ FilterInRange(transactions,
                             WindowOf(timePeriod, Earlier(timePeriod, currentDate')))
                   = filteredTransactions
       /\ handlePrevious =>
            /\ currentDate' = Earlier(timePeriod, currentDate)
            /\ WindowOf(timePeriod, Later(timePeriod, currentDate')) = dateRange
            /\ FilterInRange(transactions,
                             WindowOf(timePeriod, Later(timePeriod, currentDate')))
                   = filteredTransactions]_vars

\* From 31 January 2024, next and previous: the reference date is 29 January
\* and the window is January again.
C30_Witness ==
    /\ timePeriod = "monthly" /\ navSteps = 2
    /\ MostRecentDate(transactions) = Date(2024, 1, 31)
    /\ currentDate = Date(2024, 1, 29)
    /\ dateRange = [start |-> Date(2024, 1, 1), end |-> Date(2024, 1, 31)]

====
